---- MODULE Spec2Model ----
(***************************************************************************)
(* A model of the PD timestamp oracle (pkg/tso/tso.go) and of the TSO      *)
(* proxy admission counter (server/forward.go).                            *)
(*                                                                         *)
(* Time is counted in ticks; one millisecond is Millisecond ticks, so that *)
(* the millisecond truncation done by UnixNano()/int64(time.Millisecond)   *)
(* is a real conversion.  ZeroTime is tick 0; wall clocks read at least    *)
(* one millisecond.                                                        *)
(***************************************************************************)
EXTENDS Integers, Sequences, FiniteSets, TLC

-----------------------------------------------------------------------------
(* Bounds of the model *)

\* ticks per millisecond (time.Millisecond is 10^6 ns in the program)
Millisecond == 2
\* largest wall-clock reading, in ticks
MaxNow == 5
\* largest timestamp the storage accepts in the model, in ticks
MaxTime == 9
\* the save-interval option, in milliseconds
SaveIntervalMs == 1
\* the max-reset-ts-gap option, in milliseconds
MaxResetTSGapMs == 2
\* largest count of one Generate call
MaxCount == 2
\* the in-memory logical counter is not driven beyond this value
LogicalCap == 5
\* largest number of calls of the oracle in progress at one time
MaxInFlight == 2

-----------------------------------------------------------------------------
(* Program constants *)

\* stands for int64(1 << 18)
maxLogical == 4
\* stands for var maxRetryCount = 10
maxRetryCount == 2

ZeroTime == 0
updateTimestampGuard == Millisecond
saveInterval == SaveIntervalMs * Millisecond

Members == {"pd1", "pd2"}
NoMember == "none"
Times == Millisecond..MaxNow
Counts == 0..MaxCount

-----------------------------------------------------------------------------
(* Helpers of pkg/utils/typeutil and pkg/utils/tsoutil *)

\* t.UnixNano() / int64(time.Millisecond)
UnixMs(t) == t \div Millisecond

SubRealTimeByWallClock(after, before) == after - before

SubTSOPhysicalByWallClock(after, before) == UnixMs(after) - UnixMs(before)

\* tsoutil.ParseTS: the physical part as a time, the logical part
ParseTS(ts) ==
  [physical |-> (ts \div maxLogical) * Millisecond, logical |-> ts % maxLogical]

\* tsoutil.ComposeTS
ComposeTS(p, l) == p * maxLogical + l

\* the hosts requests are forwarded to
MaxHosts == 2
\* the callers of getDelegateClient
MaxCallers == 3
\* the connections dialled in one behaviour
MaxConns == 3

\* the largest count of a TSO request
MaxTsoCount == 2
\* the requests of one client TSO stream
MaxReqs == 3

\* the largest store id
MaxStoreId == 2
\* the largest region id and the most peers of a region in a heartbeat
MaxRegionId == 1
MaxPeers == 1

\* the largest byte of a key
MaxByte == 2
\* the most key ranges of a BatchScanRegions request
MaxRanges == 3

\* the aliases of the balance-range jobs
MaxAlias == 2
\* the jobs added to one scheduler, and the most it holds at a time
MaxAdds == 3
MaxJobs == 3

\* the stores of the cluster
MaxStores == 3

\* the largest region id of the tree's regions
MaxTreeId == 2

\* the stores of the balance-range plan, the influence of the operators on
\* a store, and the scores: up to MaxSmallScore, or LargeScore and a little
\* more
MaxBalanceStores == 3
MaxInfluence == 1
MaxSmallScore == 4
LargeScore == 200

\* adjustRatio, 0.005, in thousandths
adjustRatioPerMille == 5

\* the largest id of the regions saved in the coreStorage
MaxStoredRegion == 2

-----------------------------------------------------------------------------
VARIABLES
  leader,         \* the member holding the leadership lease, or NoMember
  storageTS,      \* the persisted timestamp window (ZeroTime when absent)
  physical,       \* tsoMux.physical of each member
  logical,        \* tsoMux.logical of each member
  lastSavedTime,  \* timestampOracle.lastSavedTime of each member
  mux,            \* TRUE while resetUserTimestamp holds tsoMux across a save
  syncOp,         \* the syncTimestamp call in progress at each member
  updOp,          \* the updateTimestamp call in progress at each member
  resetOp,        \* the resetUserTimestamp call in progress at each member
  getOp,          \* the getTS call in progress at each member
  ret,            \* what the call that returned last returned
  lastIssued,     \* the timestamp returned by the last successful getTS
  issuedInLease,  \* TRUE when lastIssued was issued under the current lease
  issuers,        \* the members that have issued a timestamp
  watch,          \* what the observer records: "issue" or "ret"
  members,        \* the members that run
  concurrentTSOProxyStreamings,  \* GrpcServer.concurrentTSOProxyStreamings
  maxStreamings,  \* the max-concurrent-tso-proxy-streamings option
  proxy,          \* the position of each forwardToTSOService call
  clientConns,    \* GrpcServer.clientConns: the (host, connection) entries
  connState,      \* of each connection: "none", "open" or "closed"
  delegate,       \* the getDelegateClient call of each caller
  wrapped,        \* which stream wrapper is observed
  closed,         \* the wrapper's closed flag
  errored,        \* whether a Send or Recv of the wrapper has returned an error
  wrapOp,         \* the Send call and the Recv call on the wrapper
  isClosed,       \* GrpcServer.IsClosed()
  isServing,      \* GrpcServer.member.IsServing()
  unary,          \* the unary request in the middleware or in its handler
  independent,    \* IsServiceIndependent(TSOServiceName)
  tsoIn,          \* the counts of the requests received on the client stream
  tsoOut,         \* the responses sent on the client stream
  tsoCall,        \* the Tso call serving the client stream
  forwarder,      \* the call's tsoForwarder: host and forward stream
  stores,         \* the ids of the stores the cluster knows
  heartbeat,      \* the RegionHeartbeat call: its last request and what
                  \* became of it
  scanRanges,     \* the key ranges of the BatchScanRegions request
  scan,           \* what BatchScanRegions did with the request
  jobs,           \* balanceRangeSchedulerConfig.jobs
  issued,         \* the JobIDs given to the jobs added so far, in order
  lastAdd,        \* what the last addJob returned
  lastDel,        \* what the last deleteJob returned
  sched,          \* the IsScheduleAllowed call of the scheduler
  keyRanges,      \* the jobs whose Ranges the cluster's key-range manager
                  \* holds
  storeStates,    \* the State of each store of the cluster, "none" without it
  storeResp,      \* the last answer of a store endpoint
  tree,           \* the regions the regionTree holds
  treeOp,         \* the last call on the tree and the regions it dropped
  endpoint,       \* the unary call at its endpoint: the steps it has taken
  fwd,            \* the streaming call that forwards: its forward stream
  balance,        \* the Schedule call of the balance-range scheduler: its
                  \* plan and the operator it returns
  coreStorage,    \* the coreStorage: the regions of its two storages, the
                  \* storage in use and regionLoaded
  loadOp          \* the last call on the coreStorage, what it returned and
                  \* the regions handed to the caller

tsoVars == <<leader, storageTS, physical, logical, lastSavedTime, mux,
             syncOp, updOp, resetOp, getOp, ret, lastIssued, issuedInLease,
             issuers, watch, members>>
proxyVars == <<concurrentTSOProxyStreamings, maxStreamings, proxy>>
poolVars == <<clientConns, connState, delegate>>
wrapVars == <<wrapped, closed, errored, wrapOp>>
roleVars == <<isClosed, isServing, unary>>
streamVars == <<independent, tsoIn, tsoOut, tsoCall, forwarder>>
hbVars == <<stores, heartbeat>>
scanVars == <<scanRanges, scan>>
jobVars == <<jobs, issued, lastAdd, lastDel, sched, keyRanges>>
storeVars == <<storeStates, storeResp>>
treeVars == <<tree, treeOp>>
endpointVars == <<endpoint>>
balVars == <<balance>>
storageVars == <<coreStorage, loadOp>>
fwdVars == <<fwd>>
lastVars == <<storeVars, treeVars, endpointVars, fwdVars, balVars,
              storageVars>>
vars == <<tsoVars, proxyVars, poolVars, wrapVars, roleVars, streamVars,
          hbVars, scanVars, jobVars, lastVars>>

\* what the calls of one component leave alone
laterVars == <<scanVars, jobVars, lastVars>>
olderVars == <<tsoVars, proxyVars, poolVars, wrapVars, roleVars, streamVars,
               hbVars, scanVars, jobVars>>
ElseOfStores ==
  <<olderVars, treeVars, endpointVars, fwdVars, balVars, storageVars>>
ElseOfTree ==
  <<olderVars, storeVars, endpointVars, fwdVars, balVars, storageVars>>
ElseOfEndpoint ==
  <<tsoVars, proxyVars, poolVars, wrapVars, streamVars, hbVars, scanVars,
    jobVars, storeVars, treeVars, fwdVars, balVars, storageVars>>
ElseOfForwarding ==
  <<tsoVars, proxyVars, wrapVars, roleVars, streamVars, hbVars, scanVars,
    jobVars, storeVars, treeVars, endpointVars, balVars, storageVars>>
ElseOfBalance ==
  <<olderVars, storeVars, treeVars, endpointVars, fwdVars, storageVars>>
ElseOfStorage ==
  <<olderVars, storeVars, treeVars, endpointVars, fwdVars, balVars>>
ElseOfProxy ==
  <<tsoVars, poolVars, wrapVars, roleVars, streamVars, hbVars, laterVars>>
ElseOfPool ==
  <<tsoVars, proxyVars, wrapVars, roleVars, streamVars, hbVars, laterVars>>
ElseOfWrap ==
  <<tsoVars, proxyVars, poolVars, roleVars, streamVars, hbVars, laterVars>>
ElseOfRole ==
  <<tsoVars, proxyVars, poolVars, wrapVars, streamVars, hbVars, laterVars>>
ElseOfStream == <<tsoVars, proxyVars, poolVars, wrapVars, hbVars, laterVars>>
ElseOfHeartbeat ==
  <<tsoVars, proxyVars, poolVars, wrapVars, streamVars, laterVars>>
ElseOfScanRole ==
  <<tsoVars, proxyVars, poolVars, wrapVars, streamVars, hbVars, jobVars,
    lastVars>>
ElseOfJobs ==
  <<tsoVars, proxyVars, poolVars, wrapVars, roleVars, streamVars, hbVars,
    scanVars, lastVars>>

\* the observer records what a call returns only when it watches the returns,
\* and the timestamps issued only when it watches the issues
Return(code) == ret' = IF watch = "ret" THEN code ELSE ret

\* the observer records the clock a call has read only when it watches the
\* returns
Read(now) == IF watch = "ret" THEN now ELSE ZeroTime

\* what no call of the oracle changes
Fixed ==
  UNCHANGED <<watch, members, proxyVars, poolVars, wrapVars, roleVars,
              streamVars, hbVars, laterVars>>

IdleSync == [pc |-> "idle", now |-> ZeroTime, next |-> ZeroTime]
IdleUpd ==
  [pc |-> "idle", now |-> ZeroTime, full |-> FALSE, next |-> ZeroTime]
IdleReset == [pc |-> "idle", np |-> ZeroTime, nl |-> 0]
IdleGet == [pc |-> "idle", count |-> 0, i |-> 0, p |-> 0, l |-> 0]
NoTS == [physical |-> 0, logical |-> 0]

-----------------------------------------------------------------------------
(* Leadership and storage *)

\* member.IsServing
IsServing(m) == leader = m

\* a storage that commits whatever the lease holder writes
SaveTimestampAcceptsAny(m, ts) == IsServing(m)

\* TSOStorage.SaveTimestamp under the leadership of m: the transaction
\* commits only for the lease holder and only a timestamp later than the one
\* stored.
SaveTimestampAccepts(m, ts) ==
  /\ IsServing(m)
  /\ storageTS = ZeroTime \/ SubRealTimeByWallClock(ts, storageTS) > 0

\* TSOStorage.LoadTimestamp
LoadTimestamp == storageTS

\* timestampOracle.saveTimestamp: the outcomes of one call
saveTimestamp(m, ts, ok) ==
  IF ok THEN /\ SaveTimestampAccepts(m, ts)
             /\ ts <= MaxTime
             /\ storageTS' = ts
        ELSE UNCHANGED storageTS

-----------------------------------------------------------------------------
(* pkg/tso/tso.go: the pure parts *)

isInitialized(m) == physical[m] # ZeroTime

getLastSavedTime(m) == lastSavedTime[m]

\* setTSOPhysical without the check that the time does not fall back
setTSOPhysicalNoGuard(p, l, next, force) ==
  IF p = ZeroTime /\ ~force THEN <<p, l>> ELSE <<next, 0>>

\* setTSOPhysical: the (physical, logical) pair it leaves in tsoMux
setTSOPhysical(p, l, next, force) ==
  IF p = ZeroTime /\ ~force THEN <<p, l>>
  ELSE IF SubTSOPhysicalByWallClock(next, p) > 0 THEN <<next, 0>>
  ELSE <<p, l>>

\* syncTimestamp: whether the synchronization is skipped
syncSkips(initialized, last, lastSaved) ==
  /\ initialized
  /\ last # ZeroTime
  /\ lastSaved # ZeroTime
  /\ SubRealTimeByWallClock(last, lastSaved) = 0

\* syncTimestamp starting from the wall clock whatever was saved
syncNextNow(now, last) == now

\* syncTimestamp starting from the saved time whatever the wall clock reads
syncNextSaved(now, last) == last + updateTimestampGuard

\* syncTimestamp: the physical time the allocation starts from
syncNext(now, last) ==
  IF SubRealTimeByWallClock(now, last) < updateTimestampGuard
  THEN last + updateTimestampGuard
  ELSE now

\* no next physical time: the previous one is kept
NoNext == -1

\* updateTimestamp moving on by a millisecond however few timestamps were
\* given out
updateNextEager(now, prevPhysical, prevLogical) ==
  IF SubRealTimeByWallClock(now, prevPhysical) > updateTimestampGuard
  THEN now
  ELSE prevPhysical + Millisecond

\* updateTimestamp following the wall clock only
updateNextClock(now, prevPhysical, prevLogical) ==
  IF SubRealTimeByWallClock(now, prevPhysical) > updateTimestampGuard
  THEN now
  ELSE NoNext

\* updateTimestamp: the next physical time, or NoNext when the previous
\* physical time is kept
updateNext(now, prevPhysical, prevLogical) ==
  LET jetLag == SubRealTimeByWallClock(now, prevPhysical) IN
  IF jetLag > updateTimestampGuard THEN now
  ELSE IF prevLogical > maxLogical \div 2 THEN prevPhysical + Millisecond
  ELSE NoNext

\* the window saved only once next has passed it
needSaveLate(lastSaved, next) ==
  SubRealTimeByWallClock(lastSaved, next) < 0

\* updateTimestamp, resetUserTimestamp: whether the window must be saved
\* before the physical time moves to next
needSave(lastSaved, next) ==
  SubRealTimeByWallClock(lastSaved, next) <= updateTimestampGuard

\* line 227 letting the physical time go back by a millisecond
smallerPhysicalLoose(physicalDifference) == physicalDifference < -1

\* resetUserTimestamp, line 227
smallerPhysical(physicalDifference) == physicalDifference < 0

\* line 235 with < in the place of <=
smallerLogicalStrict(physicalDifference, logicalDifference) ==
  physicalDifference = 0 /\ logicalDifference < 0

\* resetUserTimestamp, line 235
smallerLogical(physicalDifference, logicalDifference) ==
  physicalDifference = 0 /\ logicalDifference <= 0

\* line 243 with > in the place of >=
tooLargeStrict(physicalDifference, skipUpperBoundCheck) ==
  ~skipUpperBoundCheck /\ physicalDifference > MaxResetTSGapMs

\* resetUserTimestamp: the check that rejects a jump that is too large
tooLarge(physicalDifference, skipUpperBoundCheck) ==
  ~skipUpperBoundCheck /\ physicalDifference >= MaxResetTSGapMs

\* resetUserTimestamp: the checks made under the lock, in their order
resetUserCheck(m, tso, ignoreSmaller, skipUpperBoundCheck) ==
  LET next == ParseTS(tso)
      logicalDifference == next.logical - logical[m]
      physicalDifference == SubTSOPhysicalByWallClock(next.physical, physical[m])
  IN IF ~IsServing(m) THEN "ErrNotLeader"
     ELSE IF physical[m] = ZeroTime THEN "ErrNotInitialized"
     ELSE IF smallerPhysical(physicalDifference)
          THEN (IF ignoreSmaller THEN "ok" ELSE "ErrSmallerPhysical")
     ELSE IF smallerLogical(physicalDifference, logicalDifference)
          THEN (IF ignoreSmaller THEN "ok" ELSE "ErrSmallerLogical")
     ELSE IF tooLarge(physicalDifference, skipUpperBoundCheck)
          THEN "ErrTooLarge"
     ELSE "accept"

\* line 374 with > in the place of >=
logicalOverflowLoose(l) == l > maxLogical

\* getTS: whether the generated logical part is refused
logicalOverflow(l) == l >= maxLogical

-----------------------------------------------------------------------------
(* Leadership: one member at a time holds the lease.  A member campaigns   *)
(* only after its previous leadership's work has ended and its oracle has  *)
(* been reset.                                                             *)

\* the calls in progress, over all members
InFlight ==
  Cardinality({m \in Members: syncOp[m].pc # "idle"})
  + Cardinality({m \in Members: updOp[m].pc # "idle"})
  + Cardinality({m \in Members: resetOp[m].pc # "idle"})
  + Cardinality({m \in Members: getOp[m].pc # "idle"})

\* m has a call in progress
Busy(m) ==
  \/ syncOp[m].pc # "idle"
  \/ updOp[m].pc # "idle"
  \/ resetOp[m].pc # "idle"
  \/ getOp[m].pc # "idle"

\* a new call may start at m: the calls in progress are bounded, and when
\* several members run, each has one call in progress at a time
MayStart(m) ==
  /\ InFlight < MaxInFlight
  /\ members = {m} \/ ~Busy(m)

\* The members are interchangeable: until a window has been saved the lease
\* goes to the first of them.
Campaign(m) ==
  /\ leader = NoMember
  /\ storageTS = ZeroTime => m = "pd1"
  /\ ~Busy(m)
  /\ ~isInitialized(m)
  /\ leader' = m
  /\ issuedInLease' = FALSE
  /\ UNCHANGED <<storageTS, physical, logical, lastSavedTime, mux, syncOp,
                 updOp, resetOp, getOp, ret, lastIssued, issuers>>
  /\ Fixed

\* the lease expires or the leader resigns
LoseLease(m) ==
  /\ leader = m
  /\ leader' = NoMember
  /\ issuedInLease' = FALSE
  /\ UNCHANGED <<storageTS, physical, logical, lastSavedTime, mux, syncOp,
                 updOp, resetOp, getOp, ret, lastIssued, issuers>>
  /\ Fixed

\* the process of m stops and starts again: its memory is gone and its calls
\* are aborted
Restart(m) ==
  /\ Busy(m) \/ isInitialized(m) \/ leader = m
  /\ leader' = IF leader = m THEN NoMember ELSE leader
  /\ issuedInLease' = IF leader = m THEN FALSE ELSE issuedInLease
  /\ physical' = [physical EXCEPT ![m] = ZeroTime]
  /\ logical' = [logical EXCEPT ![m] = 0]
  /\ lastSavedTime' = [lastSavedTime EXCEPT ![m] = ZeroTime]
  /\ mux' = [mux EXCEPT ![m] = FALSE]
  /\ syncOp' = [syncOp EXCEPT ![m] = IdleSync]
  /\ updOp' = [updOp EXCEPT ![m] = IdleUpd]
  /\ resetOp' = [resetOp EXCEPT ![m] = IdleReset]
  /\ getOp' = [getOp EXCEPT ![m] = IdleGet]
  /\ IF Busy(m) THEN Return("aborted") ELSE UNCHANGED ret
  /\ UNCHANGED <<storageTS, lastIssued, issuers>>
  /\ Fixed

-----------------------------------------------------------------------------
(* resetTimestamp *)

\* lines 393-400.  The allocator resets the oracle from the routine that
\* synchronizes it, so a reset does not fall inside a syncTimestamp call.
resetTimestamp(m) ==
  /\ ~mux[m]
  /\ syncOp[m].pc = "idle"
  /\ isInitialized(m) \/ lastSavedTime[m] # ZeroTime
  /\ physical' = [physical EXCEPT ![m] = ZeroTime]
  /\ logical' = [logical EXCEPT ![m] = 0]
  /\ lastSavedTime' = [lastSavedTime EXCEPT ![m] = ZeroTime]
  /\ UNCHANGED <<leader, storageTS, mux, syncOp, updOp, resetOp, getOp, ret,
                 lastIssued, issuedInLease, issuers>>
  /\ Fixed

-----------------------------------------------------------------------------
(* syncTimestamp *)

\* lines 135-174: load, decide whether to skip, choose next
syncLoad(m) ==
  /\ syncOp[m].pc = "idle"
  /\ IsServing(m)
  /\ MayStart(m)
  /\ ~mux[m]
  /\ LET last == LoadTimestamp
         lastSaved == getLastSavedTime(m)
     IN \/ /\ Return("ErrLoadTimestamp")
           /\ UNCHANGED syncOp
        \/ /\ syncSkips(isInitialized(m), last, lastSaved)
           /\ Return("ok")
           /\ UNCHANGED syncOp
        \/ /\ ~syncSkips(isInitialized(m), last, lastSaved)
           /\ \E now \in Times:
                syncOp' = [syncOp EXCEPT ![m] =
                             [pc |-> "save", now |-> Read(now),
                              next |-> syncNext(now, last)]]
           /\ UNCHANGED ret
  /\ UNCHANGED <<leader, storageTS, physical, logical, lastSavedTime, mux,
                 updOp, resetOp, getOp, lastIssued, issuedInLease, issuers>>
  /\ Fixed

\* lines 178-184: save next + saveInterval, remember it
syncSave(m) ==
  /\ syncOp[m].pc = "save"
  /\ LET save == syncOp[m].next + saveInterval
     IN \/ /\ saveTimestamp(m, save, FALSE)
           /\ syncOp' = [syncOp EXCEPT ![m] = IdleSync]
           /\ Return("ErrSaveTimestamp")
           /\ UNCHANGED lastSavedTime
        \/ /\ saveTimestamp(m, save, TRUE)
           /\ lastSavedTime' = [lastSavedTime EXCEPT ![m] = save]
           /\ syncOp' = [syncOp EXCEPT ![m].pc = "set",
                                       ![m].now = ZeroTime]
           /\ UNCHANGED ret
  /\ UNCHANGED <<leader, physical, logical, mux, updOp, resetOp, getOp,
                 lastIssued, issuedInLease, issuers>>
  /\ Fixed

\* line 193: setTSOPhysical(next, true)
syncSet(m) ==
  /\ syncOp[m].pc = "set"
  /\ ~mux[m]
  /\ LET pl == setTSOPhysical(physical[m], logical[m], syncOp[m].next, TRUE)
     IN /\ physical' = [physical EXCEPT ![m] = pl[1]]
        /\ logical' = [logical EXCEPT ![m] = pl[2]]
  /\ syncOp' = [syncOp EXCEPT ![m] = IdleSync]
  /\ Return("ok")
  /\ UNCHANGED <<leader, storageTS, lastSavedTime, mux, updOp, resetOp, getOp,
                 lastIssued, issuedInLease, issuers>>
  /\ Fixed

-----------------------------------------------------------------------------
(* updateTimestamp *)

\* lines 280-282
updInit(m) ==
  /\ updOp[m].pc = "idle"
  /\ IsServing(m)
  /\ MayStart(m)
  /\ ~mux[m]
  /\ IF isInitialized(m)
     THEN /\ updOp' = [updOp EXCEPT ![m].pc = "init"]
          /\ UNCHANGED ret
     ELSE /\ Return("ErrNotInitialized")
          /\ UNCHANGED updOp
  /\ UNCHANGED <<leader, storageTS, physical, logical, lastSavedTime, mux,
                 syncOp, resetOp, getOp, lastIssued, issuedInLease, issuers>>
  /\ Fixed

\* lines 283-331: read the TSO and the clock, choose next, decide on saving
updRead(m) ==
  /\ updOp[m].pc = "init"
  /\ ~mux[m]
  /\ \E now \in Times:
       LET next == updateNext(now, physical[m], logical[m])
       IN IF next = NoNext
          THEN /\ updOp' = [updOp EXCEPT ![m] = IdleUpd]
               /\ Return("ok")
          ELSE /\ updOp' = [updOp EXCEPT ![m] =
                   [pc |-> IF needSave(getLastSavedTime(m), next)
                           THEN "save" ELSE "set",
                    now |-> Read(now),
                    full |-> watch = "ret" /\ logical[m] >= maxLogical,
                    next |-> next]]
               /\ UNCHANGED ret
  /\ UNCHANGED <<leader, storageTS, physical, logical, lastSavedTime, mux,
                 syncOp, resetOp, getOp, lastIssued, issuedInLease, issuers>>
  /\ Fixed

\* lines 332-340
updSave(m) ==
  /\ updOp[m].pc = "save"
  /\ LET save == updOp[m].next + saveInterval
     IN \/ /\ saveTimestamp(m, save, FALSE)
           /\ updOp' = [updOp EXCEPT ![m] = IdleUpd]
           /\ Return("ErrSaveTimestamp")
        \/ /\ saveTimestamp(m, save, TRUE)
           /\ updOp' = [updOp EXCEPT ![m].pc = "store",
                                     ![m].now = ZeroTime]
           /\ UNCHANGED ret
  /\ UNCHANGED <<leader, physical, logical, lastSavedTime, mux, syncOp,
                 resetOp, getOp, lastIssued, issuedInLease, issuers>>
  /\ Fixed

\* line 341
updStore(m) ==
  /\ updOp[m].pc = "store"
  /\ lastSavedTime' =
       [lastSavedTime EXCEPT ![m] = updOp[m].next + saveInterval]
  /\ updOp' = [updOp EXCEPT ![m].pc = "set"]
  /\ UNCHANGED <<leader, storageTS, physical, logical, mux, syncOp, resetOp,
                 getOp, ret, lastIssued, issuedInLease, issuers>>
  /\ Fixed

\* line 345: setTSOPhysical(next, false)
updSet(m) ==
  /\ updOp[m].pc = "set"
  /\ ~mux[m]
  /\ LET pl == setTSOPhysical(physical[m], logical[m], updOp[m].next, FALSE)
     IN /\ physical' = [physical EXCEPT ![m] = pl[1]]
        /\ logical' = [logical EXCEPT ![m] = pl[2]]
  /\ updOp' = [updOp EXCEPT ![m] = IdleUpd]
  /\ Return("ok")
  /\ UNCHANGED <<leader, storageTS, lastSavedTime, mux, syncOp, resetOp,
                 getOp, lastIssued, issuedInLease, issuers>>
  /\ Fixed

-----------------------------------------------------------------------------
(* resetUserTimestamp *)

\* the timestamps a caller may ask for
ResetTargets == 0..((MaxTime \div Millisecond) * maxLogical + maxLogical - 1)

\* resetUserTimestamp putting the requested time in memory before the window
\* is saved
resetUserLockedEarly(m, tso, ignoreSmaller, skipUpperBoundCheck) ==
  LET code == resetUserCheck(m, tso, ignoreSmaller, skipUpperBoundCheck)
      next == ParseTS(tso)
  IN IF code # "accept"
     THEN [ret |-> code, save |-> FALSE,
           physical |-> physical[m], logical |-> logical[m]]
     ELSE [ret |-> IF needSave(getLastSavedTime(m), next.physical)
                   THEN "none" ELSE "ok",
           save |-> needSave(getLastSavedTime(m), next.physical),
           physical |-> next.physical, logical |-> next.logical]

\* lines 211-248 and, when nothing is to be saved, 259-262: what the call
\* does under the lock before any save. ret is what it returns ("none" when
\* it goes on to save), physical and logical are what it leaves in tsoMux.
resetUserLocked(m, tso, ignoreSmaller, skipUpperBoundCheck) ==
  LET code == resetUserCheck(m, tso, ignoreSmaller, skipUpperBoundCheck)
      next == ParseTS(tso)
  IN IF code # "accept"
     THEN [ret |-> code, save |-> FALSE,
           physical |-> physical[m], logical |-> logical[m]]
     ELSE IF needSave(getLastSavedTime(m), next.physical)
     THEN [ret |-> "none", save |-> TRUE,
           physical |-> physical[m], logical |-> logical[m]]
     ELSE [ret |-> "ok", save |-> FALSE,
           physical |-> next.physical, logical |-> next.logical]

\* the call up to its return or up to its save
resetUserBegin(m, tso, ignoreSmaller, skipUpperBoundCheck) ==
  /\ resetOp[m].pc = "idle"
  /\ MayStart(m)
  /\ ~mux[m]
  /\ LET out == resetUserLocked(m, tso, ignoreSmaller, skipUpperBoundCheck)
         next == ParseTS(tso)
     IN /\ physical' = [physical EXCEPT ![m] = out.physical]
        /\ logical' = [logical EXCEPT ![m] = out.logical]
        /\ IF out.save
           THEN /\ resetOp' = [resetOp EXCEPT ![m] =
                     [pc |-> "save", np |-> next.physical,
                      nl |-> next.logical]]
                /\ mux' = [mux EXCEPT ![m] = TRUE]
                /\ UNCHANGED ret
           ELSE /\ Return(out.ret)
                /\ UNCHANGED <<mux, resetOp>>
  /\ UNCHANGED <<leader, storageTS, lastSavedTime, syncOp, updOp, getOp,
                 lastIssued, issuedInLease, issuers>>
  /\ Fixed

\* lines 249-262
resetUserSave(m) ==
  /\ resetOp[m].pc = "save"
  /\ LET save == resetOp[m].np + saveInterval
     IN \/ /\ saveTimestamp(m, save, FALSE)
           /\ Return("ErrSaveTimestamp")
           /\ UNCHANGED <<physical, logical, lastSavedTime>>
        \/ /\ saveTimestamp(m, save, TRUE)
           /\ lastSavedTime' = [lastSavedTime EXCEPT ![m] = save]
           /\ physical' = [physical EXCEPT ![m] = resetOp[m].np]
           /\ logical' = [logical EXCEPT ![m] = resetOp[m].nl]
           /\ Return("ok")
  /\ resetOp' = [resetOp EXCEPT ![m] = IdleReset]
  /\ mux' = [mux EXCEPT ![m] = FALSE]
  /\ UNCHANGED <<leader, syncOp, updOp, getOp, lastIssued, issuedInLease,
                 issuers>>
  /\ Fixed

resetUserTimestamp(m) ==
  \/ \E tso \in ResetTargets, ignoreSmaller, skipUpperBoundCheck \in BOOLEAN:
       resetUserBegin(m, tso, ignoreSmaller, skipUpperBoundCheck)
  \/ resetUserSave(m)

-----------------------------------------------------------------------------
(* getTS and generateTSO *)

\* the loop of lines 358-388: the turn after a sleep, or the end of the loop,
\* for a call with frame f
getRetry(m, f) ==
  IF f.i + 1 >= maxRetryCount
  THEN /\ getOp' = [getOp EXCEPT ![m] = IdleGet]
       /\ Return("ErrMaxRetries")
  ELSE /\ getOp' = [getOp EXCEPT ![m] =
                      [pc |-> "loop", count |-> f.count, i |-> f.i + 1,
                       p |-> 0, l |-> 0]]
       /\ UNCHANGED ret

\* lines 359-368 of one turn of the loop: getTSO and the check that the TSO
\* is initialized, for a call with frame f
getCheckInit(m, f) ==
  IF physical[m] = ZeroTime
  THEN IF IsServing(m)
       THEN getRetry(m, f)
       ELSE /\ getOp' = [getOp EXCEPT ![m] = IdleGet]
            /\ Return("ErrNotInitialized")
  ELSE /\ getOp' = [getOp EXCEPT ![m] = [f EXCEPT !.pc = "gen"]]
       /\ UNCHANGED ret

\* lines 355-368: the check of count and the first turn of the loop
getBegin(m) ==
  /\ getOp[m].pc = "idle"
  /\ IsServing(m)
  /\ MayStart(m)
  /\ ~mux[m]
  /\ \E count \in Counts:
       IF count = 0
       THEN /\ Return("ErrCountZero")
            /\ UNCHANGED getOp
       ELSE getCheckInit(m, [IdleGet EXCEPT !.count = count])
  /\ UNCHANGED <<leader, storageTS, physical, logical, lastSavedTime, mux,
                 syncOp, updOp, resetOp, lastIssued, issuedInLease, issuers>>
  /\ Fixed

\* lines 359-368: a later turn of the loop
getLoop(m) ==
  /\ getOp[m].pc = "loop"
  /\ ~mux[m]
  /\ getCheckInit(m, getOp[m])
  /\ UNCHANGED <<leader, storageTS, physical, logical, lastSavedTime, mux,
                 syncOp, updOp, resetOp, lastIssued, issuedInLease, issuers>>
  /\ Fixed

\* generateTSO adding one whatever count is
generateTSOOne(l, count) == l + 1

\* generateTSO: the logical part after adding count
generateTSO(l, count) == l + count

\* lines 370-382: generateTSO and the checks of its result
getGenerate(m) ==
  /\ getOp[m].pc = "gen"
  /\ ~mux[m]
  /\ IF physical[m] = ZeroTime
     THEN /\ getOp' = [getOp EXCEPT ![m] = IdleGet]
          /\ Return("ErrReset")
          /\ UNCHANGED logical
     ELSE /\ generateTSO(logical[m], getOp[m].count) <= LogicalCap
          /\ logical' = [logical EXCEPT ![m] =
                           generateTSO(logical[m], getOp[m].count)]
          /\ IF logicalOverflow(logical'[m])
             THEN getRetry(m, getOp[m])
             ELSE /\ getOp' = [getOp EXCEPT ![m] =
                       [pc |-> "check", count |-> getOp[m].count,
                        i |-> getOp[m].i, p |-> UnixMs(physical[m]),
                        l |-> logical'[m]]]
                  /\ UNCHANGED ret
  /\ UNCHANGED <<leader, storageTS, physical, lastSavedTime, mux, syncOp,
                 updOp, resetOp, lastIssued, issuedInLease, issuers>>
  /\ Fixed

\* lines 383-387: the lease check after the generation, and the return
getReturn(m) ==
  /\ getOp[m].pc = "check"
  /\ IF IsServing(m)
     THEN /\ IF watch = "issue"
             THEN /\ lastIssued' = [physical |-> getOp[m].p,
                                    logical |-> getOp[m].l]
                  /\ issuedInLease' = TRUE
                  /\ issuers' = issuers \cup {m}
             ELSE UNCHANGED <<lastIssued, issuedInLease, issuers>>
          /\ Return("ok")
     ELSE /\ Return("ErrNotLeader")
          /\ UNCHANGED <<lastIssued, issuedInLease, issuers>>
  /\ getOp' = [getOp EXCEPT ![m] = IdleGet]
  /\ UNCHANGED <<leader, storageTS, physical, logical, lastSavedTime, mux,
                 syncOp, updOp, resetOp>>
  /\ Fixed

-----------------------------------------------------------------------------
(* The timestamp oracle *)

InitOracle ==
  /\ leader = NoMember
  /\ storageTS = ZeroTime
  /\ physical = [m \in Members |-> ZeroTime]
  /\ logical = [m \in Members |-> 0]
  /\ lastSavedTime = [m \in Members |-> ZeroTime]
  /\ mux = [m \in Members |-> FALSE]
  /\ syncOp = [m \in Members |-> IdleSync]
  /\ updOp = [m \in Members |-> IdleUpd]
  /\ resetOp = [m \in Members |-> IdleReset]
  /\ getOp = [m \in Members |-> IdleGet]
  /\ ret = "none"
  /\ lastIssued = NoTS
  /\ issuedInLease = FALSE
  /\ issuers = {}

\* no connection and no caller
InitPool ==
  /\ clientConns = {}
  /\ connState = [c \in 1..MaxConns |-> "none"]
  /\ delegate = [k \in 1..MaxCallers |->
                   [pc |-> "idle", host |-> 0, conn |-> 0]]

\* a stream wrapper of kind w after construction, no call on it
Ops == {"Send", "Recv"}
IdleCall == [pc |-> "idle", late |-> FALSE, ret |-> "none"]
InitWrap(w) ==
  /\ wrapped = w
  /\ closed = 0
  /\ errored = FALSE
  /\ wrapOp = [o \in Ops |-> IdleCall]

\* a running server that is the serving member, no unary request
IdleUnary ==
  [pc |-> "idle", local |-> TRUE, allow |-> FALSE, optIn |-> FALSE,
   clusterOk |-> TRUE, served |-> TRUE, followerHandle |-> FALSE,
   ret |-> "none"]
InitRole ==
  /\ isClosed = FALSE
  /\ isServing = TRUE
  /\ unary = IdleUnary

\* no client TSO stream, the TSO service not independent
NoStream == [host |-> 0, inflight |-> <<>>]
NoResponse == [req |-> 0, count |-> 0]
IdleTso ==
  [pc |-> "idle", loop |-> "Tso", local |-> TRUE, count |-> 0,
   resp |-> NoResponse, ret |-> "none"]
InitStream ==
  /\ independent = FALSE
  /\ tsoIn = <<>>
  /\ tsoOut = <<>>
  /\ tsoCall = IdleTso
  /\ forwarder = NoStream

\* no region heartbeat stream; the cluster knows the stores of ids
NilPeer == -1
NoHeartbeat ==
  [local |-> TRUE, bootstrapped |-> TRUE, clusterOk |-> TRUE,
   leader |-> NilPeer, id |-> 0, peers |-> 0, handleErr |-> FALSE]
IdleHeartbeat ==
  [pc |-> "idle", req |-> NoHeartbeat, out |-> "none", sent |-> "none",
   handled |-> FALSE]
InitHeartbeat(ids) ==
  /\ stores = ids
  /\ heartbeat = IdleHeartbeat

\* no BatchScanRegions request
InitScan(ranges) ==
  /\ scanRanges = ranges
  /\ scan = [out |-> "none", scanned |-> FALSE]

\* a balance-range scheduler loaded without jobs
IdleSched == [pc |-> "idle", index |-> 0, status |-> "none"]
InitJobsWith(first) ==
  /\ jobs = first
  /\ issued = [i \in 1..Len(first) |-> first[i].JobID]
  /\ lastAdd = "none"
  /\ lastDel = "none"
  /\ sched = IdleSched
  /\ keyRanges = {}
InitJobs == InitJobsWith(<<>>)

\* a cluster without stores, no store endpoint called
NoStoreResp == [op |-> "none", code |-> "none"]
InitStores ==
  /\ storeStates = [id \in 1..MaxStores |-> "none"]
  /\ storeResp = NoStoreResp

\* newRegionTree
NoTreeOp == [op |-> "none", dropped |-> 0]
InitTree ==
  /\ tree = {}
  /\ treeOp = NoTreeOp

\* no unary call at an endpoint
IdleEndpoint ==
  [name |-> "none", pc |-> "idle", local |-> TRUE, clusterOk |-> TRUE,
   trace |-> <<>>, ret |-> "none"]
InitEndpoint == endpoint = IdleEndpoint

\* no streaming call that forwards
IdleForwarding ==
  [kind |-> "none", pc |-> "idle", host |-> 0, stream |-> FALSE,
   failed |-> 0, ret |-> "none"]
InitForwarding == fwd = IdleForwarding

\* no operator, no store
NoOp == [source |-> 0, target |-> 0]
\* the balance-range scheduler before any Schedule call
IdleBalance ==
  [pc |-> "idle", stores |-> <<>>, scoreMap |-> <<>>, influence |-> <<>>,
   averageScore |-> 0, tolerate |-> 0, sourceIndex |-> 0, op |-> NoOp]
InitBalance == balance = IdleBalance

\* NewCoreStorage over two storages without regions, nothing called
InitStorage ==
  /\ coreStorage = [Storage |-> {}, regionStorage |-> {},
                    useRegionStorage |-> FALSE, regionLoaded |-> "unloaded"]
  /\ loadOp = [op |-> "none", ret |-> "none", regions |-> {}]

\* the store registry and what follows it, with nothing going on
InitLast ==
  /\ InitStores
  /\ InitTree
  /\ InitEndpoint
  /\ InitForwarding
  /\ InitBalance
  /\ InitStorage

\* the components added after the heartbeat, with nothing going on
InitLater ==
  /\ InitScan(<<>>)
  /\ InitJobs
  /\ InitLast

\* the components the oracle and the proxy do not touch
InitOthers ==
  /\ InitPool
  /\ InitWrap("heartbeatServer")
  /\ InitRole
  /\ InitStream
  /\ InitHeartbeat({1})
  /\ InitLater

InitProxyIdle ==
  /\ concurrentTSOProxyStreamings = 0
  /\ maxStreamings = 0
  /\ proxy = <<>>

\* one member, the issued timestamps observed
Init ==
  /\ InitOracle
  /\ watch = "issue"
  /\ members = {"pd1"}
  /\ InitProxyIdle
  /\ InitOthers

\* two members, so that the lease passes from one oracle to another
InitLeaders ==
  /\ InitOracle
  /\ watch = "issue"
  /\ members = Members
  /\ InitProxyIdle
  /\ InitOthers

\* one member, the returned values observed
InitRet ==
  /\ InitOracle
  /\ watch = "ret"
  /\ members = {"pd1"}
  /\ InitProxyIdle
  /\ InitOthers

\* one step of member m
Step(m) ==
  \/ Campaign(m)
  \/ LoseLease(m)
  \/ Restart(m)
  \/ resetTimestamp(m)
  \/ syncLoad(m)
  \/ syncSave(m)
  \/ syncSet(m)
  \/ updInit(m)
  \/ updRead(m)
  \/ updSave(m)
  \/ updStore(m)
  \/ updSet(m)
  \/ resetUserTimestamp(m)
  \/ getBegin(m)
  \/ getLoop(m)
  \/ getGenerate(m)
  \/ getReturn(m)

Next == \E m \in {"pd1"}: Step(m)

NextLeaders == \E m \in Members: Step(m)

Spec == Init /\ [][Next]_vars

SpecLeaders == InitLeaders /\ [][NextLeaders]_vars

SpecRet == InitRet /\ [][Next]_vars

-----------------------------------------------------------------------------
(* The proxy of TSO streams: GrpcServer.forwardToTSOService *)

\* the streams a client may open through the proxy
MaxStreams == 3
Streams == 1..MaxStreams

\* the largest configured max-concurrent-tso-proxy-streamings
MaxCap == 2
Caps == -1..MaxCap

\* the requests one stream may send
MaxRecvs == 2

\* how far below zero the counter is followed
MaxBelow == 4

IdleStream == [pc |-> "idle", max |-> 0, recvs |-> 0, err |-> "none"]

\* the streams past the admission and not yet returned
Serving == {s \in Streams : proxy[s].pc = "serve"}

\* Config.GetMaxConcurrentTSOProxyStreamings
GetMaxConcurrentTSOProxyStreamings == maxStreamings

\* line 60 with a bound one too large
exceedsByTwo(newCount, max) == newCount > max + 1

\* line 60: the comparison of the new count with the cap
exceedsMax(newCount, max) == newCount > max

\* lines 45-58: the call is entered, its deferred function is registered and
\* the cap is read
forwardEnter(s) ==
  /\ proxy[s].pc = "idle"
  /\ proxy' = [proxy EXCEPT ![s] =
                 [pc |-> "admit", max |-> GetMaxConcurrentTSOProxyStreamings,
                  recvs |-> 0, err |-> "none"]]
  /\ UNCHANGED <<concurrentTSOProxyStreamings, maxStreamings>>
  /\ UNCHANGED ElseOfProxy

\* lines 59-63: the admission of the stream
forwardAdmit(s) ==
  /\ proxy[s].pc = "admit"
  /\ IF proxy[s].max >= 0
     THEN /\ concurrentTSOProxyStreamings' = concurrentTSOProxyStreamings + 1
          /\ IF exceedsMax(concurrentTSOProxyStreamings', proxy[s].max)
             THEN proxy' = [proxy EXCEPT ![s].pc = "return",
                     ![s].err = "ErrMaxCountTSOProxyRoutinesExceeded"]
             ELSE proxy' = [proxy EXCEPT ![s].pc = "serve"]
     ELSE /\ proxy' = [proxy EXCEPT ![s].pc = "serve"]
          /\ UNCHANGED concurrentTSOProxyStreamings
  /\ UNCHANGED maxStreamings
  /\ UNCHANGED ElseOfProxy

\* lines 69-75: the server or the stream is done
forwardDone(s) ==
  /\ proxy[s].pc = "serve"
  /\ proxy' = [proxy EXCEPT ![s].pc = "return", ![s].err = "ErrContext"]
  /\ UNCHANGED <<concurrentTSOProxyStreamings, maxStreamings>>
  /\ UNCHANGED ElseOfProxy

\* lines 77-94: one request is awaited, read and forwarded
forwardRecv(s) ==
  /\ proxy[s].pc = "serve"
  /\ proxy[s].recvs < MaxRecvs
  /\ \/ proxy' = [proxy EXCEPT ![s].recvs = @ + 1]
     \/ \E e \in {"nil", "ErrRecv", "ErrGenerateTimestamp", "ErrForward"}:
          proxy' = [proxy EXCEPT ![s].recvs = @ + 1, ![s].pc = "return",
                                 ![s].err = e]
  /\ UNCHANGED <<concurrentTSOProxyStreamings, maxStreamings>>
  /\ UNCHANGED ElseOfProxy

\* a deferred function that leaves the counter as it is
forwardReturnKeeps(s) ==
  /\ proxy[s].pc = "return"
  /\ proxy' = [proxy EXCEPT ![s] = IdleStream]
  /\ UNCHANGED <<concurrentTSOProxyStreamings, maxStreamings>>
  /\ UNCHANGED ElseOfProxy

\* lines 50-56: the deferred function, run when the call returns
forwardReturn(s) ==
  /\ proxy[s].pc = "return"
  /\ concurrentTSOProxyStreamings > -MaxBelow
  /\ concurrentTSOProxyStreamings' = concurrentTSOProxyStreamings - 1
  /\ proxy' = [proxy EXCEPT ![s] = IdleStream]
  /\ UNCHANGED maxStreamings
  /\ UNCHANGED ElseOfProxy

InitProxy ==
  /\ InitOracle
  /\ watch = "issue"
  /\ members = {"pd1"}
  /\ concurrentTSOProxyStreamings = 0
  /\ maxStreamings \in Caps
  /\ proxy = [s \in Streams |-> IdleStream]
  /\ InitOthers

NextProxy ==
  \E s \in Streams:
    \/ forwardEnter(s)
    \/ forwardAdmit(s)
    \/ forwardDone(s)
    \/ forwardRecv(s)
    \/ forwardReturn(s)

SpecProxy == InitProxy /\ [][NextProxy]_vars

-----------------------------------------------------------------------------
\* The pool of connections to the hosts requests are forwarded to
\* (server/forward.go).  clientConns is a sync.Map from host to connection; it
\* is kept here as its set of entries, so that "one connection per host" is a
\* property of the operations and not of the representation.

Hosts == 1..MaxHosts
Callers == 1..MaxCallers
Conns == 1..MaxConns
NoConn == 0

\* the connections clientConns holds for host h
Stored(h) == {c \in Conns : <<h, c>> \in clientConns}

\* an unconditional store (what LoadOrStore is not)
StoreAlways(h, c) == clientConns \cup {<<h, c>>}

\* sync.Map.LoadOrStore: the entries after the call
LoadOrStore(h, c) ==
  IF Stored(h) # {} THEN clientConns ELSE clientConns \cup {<<h, c>>}

\* the connections never dialled yet
Fresh == {c \in Conns : connState[c] = "none"}

\* getDelegateClient, the Load: a stored connection is the one to return
delegateLoad(k, h) ==
  /\ delegate[k].pc = "idle"
  /\ IF Stored(h) # {}
       THEN \E c \in Stored(h):
              delegate' = [delegate EXCEPT
                             ![k] = [pc |-> "ret", host |-> h, conn |-> c]]
       ELSE delegate' = [delegate EXCEPT
                           ![k] = [pc |-> "dial", host |-> h, conn |-> NoConn]]
  /\ UNCHANGED <<clientConns, connState>>
  /\ UNCHANGED ElseOfPool

\* getDelegateClient, ToClientTLSConfig or GetClientConn fails: nil is returned
delegateDialFail(k) ==
  /\ delegate[k].pc = "dial"
  /\ delegate' = [delegate EXCEPT ![k].pc = "idle", ![k].conn = NoConn]
  /\ UNCHANGED <<clientConns, connState>>
  /\ UNCHANGED ElseOfPool

\* getDelegateClient, GetClientConn succeeds: a new connection is open
delegateDial(k) ==
  /\ delegate[k].pc = "dial"
  /\ Fresh # {}
  /\ LET c == CHOOSE c \in Fresh : \A d \in Fresh : c <= d
     IN /\ connState' = [connState EXCEPT ![c] = "open"]
        /\ delegate' = [delegate EXCEPT ![k].pc = "store", ![k].conn = c]
  /\ UNCHANGED clientConns
  /\ UNCHANGED ElseOfPool

\* getDelegateClient, the LoadOrStore: the new connection is stored and is
\* the one to return, or it is closed and the stored one is the one to return
delegateStore(k) ==
  /\ delegate[k].pc = "store"
  /\ LET h == delegate[k].host
         newConn == delegate[k].conn
         loaded == Stored(h) # {}
     IN /\ clientConns' = LoadOrStore(h, newConn)
        /\ IF ~loaded
             THEN /\ delegate' = [delegate EXCEPT ![k].pc = "ret"]
                  /\ UNCHANGED connState
             ELSE /\ connState' = [connState EXCEPT ![newConn] = "closed"]
                  /\ \E c \in Stored(h):
                       delegate' = [delegate EXCEPT
                                      ![k].pc = "ret", ![k].conn = c]
  /\ UNCHANGED ElseOfPool

\* getDelegateClient returns the connection it has got: the caller has it
\* from here on
delegateReturn(k) ==
  /\ delegate[k].pc = "ret"
  /\ delegate' = [delegate EXCEPT ![k].pc = "idle"]
  /\ UNCHANGED <<clientConns, connState>>
  /\ UNCHANGED ElseOfPool

\* closeDelegateClient: the entry of the host is deleted and its connection
\* closed
closeDelegateClient(h) ==
  /\ Stored(h) # {}
  /\ \E c \in Stored(h):
       /\ clientConns' = clientConns \ {<<h, c>>}
       /\ connState' = [connState EXCEPT ![c] = "closed"]
  /\ UNCHANGED delegate
  /\ UNCHANGED ElseOfPool

InitPoolSpec ==
  /\ InitOracle
  /\ watch = "issue"
  /\ members = {"pd1"}
  /\ InitProxyIdle
  /\ InitOthers

NextPool ==
  \/ \E k \in Callers, h \in Hosts: delegateLoad(k, h)
  \/ \E k \in Callers: delegateDialFail(k)
  \/ \E k \in Callers: delegateDial(k)
  \/ \E k \in Callers: delegateStore(k)
  \/ \E k \in Callers: delegateReturn(k)
  \/ \E h \in Hosts: closeDelegateClient(h)

SpecPool == InitPoolSpec /\ [][NextPool]_vars

-----------------------------------------------------------------------------
\* The stream wrappers heartbeatServer, bucketHeartbeatServer and tsoServer.
\* A Send and a Recv may run at the same time on one wrapper.

Wrappers == {"heartbeatServer", "bucketHeartbeatServer", "tsoServer"}

\* a timer on the Sends only
HasTimerSendOnly(w, o) == o = "Send"

\* whether the call waits on a timer next to the underlying call:
\* every Send does, of the Recvs only tsoServer.recv
HasTimer(w, o) == o = "Send" \/ w = "tsoServer"

\* what the underlying call of the wrapper's o can come to
Outcomes(w, o) ==
  {"nil", "error"} \cup (IF HasTimer(w, o) THEN {"timeout"} ELSE {})

\* the error a call on a closed wrapper returns
ClosedError(w, o) ==
  IF w = "bucketHeartbeatServer" /\ o = "Send" THEN "ErrStreamClosed"
  ELSE "io.EOF"

\* the error a timed-out call returns
TimeoutError(w, o) ==
  IF w = "tsoServer"
    THEN IF o = "Send" THEN "ErrForwardTSOTimeout"
         ELSE "ErrTSOProxyRecvFromClientTimeout"
    ELSE "ErrSendHeartbeatTimeout"

\* the closed flag, were only an error of the underlying call to set it
closedAfterErrorOnly(outcome) == IF outcome = "error" THEN 1 ELSE closed

\* the closed flag after the underlying call came to outcome
closedAfter(outcome) == IF outcome # "nil" THEN 1 ELSE closed

\* a Send or a Recv is called
wrapCall(o) ==
  /\ wrapOp[o].pc = "idle"
  /\ wrapOp' = [wrapOp EXCEPT
                  ![o] = [pc |-> "load", late |-> errored, ret |-> "none"]]
  /\ UNCHANGED <<wrapped, closed, errored>>
  /\ UNCHANGED ElseOfWrap

\* atomic.LoadInt32(&s.closed): a closed wrapper returns at once, an open one
\* calls the underlying stream
wrapLoad(o) ==
  /\ wrapOp[o].pc = "load"
  /\ IF closed = 1
       THEN /\ wrapOp' = [wrapOp EXCEPT
                            ![o].pc = "idle",
                            ![o].ret = ClosedError(wrapped, o)]
            /\ errored' = TRUE
       ELSE /\ wrapOp' = [wrapOp EXCEPT ![o].pc = "stream"]
            /\ UNCHANGED errored
  /\ UNCHANGED <<wrapped, closed>>
  /\ UNCHANGED ElseOfWrap

\* the underlying call returns or the timer fires: the flag is set on
\* everything but success, and the call returns
wrapReturn(o) ==
  /\ wrapOp[o].pc = "stream"
  /\ \E outcome \in Outcomes(wrapped, o):
       /\ closed' = closedAfter(outcome)
       /\ errored' = (errored \/ outcome # "nil")
       /\ wrapOp' = [wrapOp EXCEPT
                       ![o].pc = "idle",
                       ![o].ret = CASE outcome = "nil" -> "nil"
                                    [] outcome = "error" -> "error"
                                    [] OTHER -> TimeoutError(wrapped, o)]
  /\ UNCHANGED wrapped
  /\ UNCHANGED ElseOfWrap

InitWrapSpec ==
  /\ InitOracle
  /\ watch = "issue"
  /\ members = {"pd1"}
  /\ InitProxyIdle
  /\ InitPool
  /\ InitRole
  /\ InitStream
  /\ InitHeartbeat({1})
  /\ InitLater
  /\ \E w \in Wrappers: InitWrap(w)

NextWrap ==
  \E o \in Ops:
    \/ wrapCall(o)
    \/ wrapLoad(o)
    \/ wrapReturn(o)

SpecWrap == InitWrapSpec /\ [][NextWrap]_vars

\* case <-timer.C of the call o: the timer fires while the underlying call
\* has not returned
wrapTimeout(o) ==
  /\ wrapReturn(o)
  /\ wrapOp'[o].ret = TimeoutError(wrapped, o)

\* the timer of a receive fires in the end when nothing else ends the call;
\* whether the client sends or the stream breaks is left open
SpecWrapLive == SpecWrap /\ WF_vars(wrapTimeout("Recv"))

-----------------------------------------------------------------------------
\* The role check of the unary endpoints: unaryFollowerMiddleware and
\* validateRoleInRequest.  allow says that the endpoint passes a non-nil
\* allowFollower, optIn that the request context enables follower handling,
\* clusterOk that the header carries the cluster id of this server.

\* the check of a member that is not serving, the request's opt-in ignored
followerCheckNoOptIn(allow, optIn) ==
  IF ~allow THEN "ErrNotLeader" ELSE "nil"

\* the check of a member that is not serving
followerCheck(allow, optIn) ==
  IF ~allow THEN "ErrNotLeader"
  ELSE IF ~optIn THEN "ErrFollowerHandlingNotAllowed"
  ELSE "nil"

\* validateRoleInRequest: the error, and what *allowFollower is afterwards
validateRoleInRequest(allow, optIn, clusterOk) ==
  IF isClosed THEN [err |-> "ErrNotStarted", allowFollower |-> FALSE]
  ELSE IF ~isServing /\ followerCheck(allow, optIn) # "nil"
    THEN [err |-> followerCheck(allow, optIn), allowFollower |-> FALSE]
  ELSE [err |-> IF clusterOk THEN "nil" ELSE "ErrMismatchClusterID",
        allowFollower |-> ~isServing]

\* the lease is won or lost
roleChange ==
  /\ isServing' = ~isServing
  /\ UNCHANGED <<isClosed, unary>>
  /\ UNCHANGED ElseOfRole

\* the server is closed or started again
serverClose ==
  /\ isClosed' = ~isClosed
  /\ UNCHANGED <<isServing, unary>>
  /\ UNCHANGED ElseOfRole

\* a unary request arrives at its endpoint
unaryEnter(local, allow, optIn, clusterOk) ==
  /\ unary.pc = "idle"
  /\ unary' = [pc |-> "middleware", local |-> local, allow |-> allow,
               optIn |-> optIn, clusterOk |-> clusterOk, served |-> TRUE,
               followerHandle |-> FALSE, ret |-> "none"]
  /\ UNCHANGED <<isClosed, isServing>>
  /\ UNCHANGED ElseOfRole

\* unaryFollowerMiddleware: a request for another host is forwarded, a local
\* one has its role validated
unaryFollowerMiddleware ==
  /\ unary.pc = "middleware"
  /\ IF ~unary.local
       THEN unary' = [unary EXCEPT !.pc = "idle", !.ret = "forwarded"]
       ELSE LET v == validateRoleInRequest(unary.allow, unary.optIn,
                                           unary.clusterOk)
            IN IF v.err # "nil"
                 THEN unary' = [unary EXCEPT !.pc = "idle", !.ret = v.err,
                                             !.served = isServing]
                 ELSE unary' = [unary EXCEPT
                                  !.pc = "body", !.served = isServing,
                                  !.followerHandle = v.allowFollower]
  /\ UNCHANGED <<isClosed, isServing>>
  /\ UNCHANGED ElseOfRole

\* the handler after the middleware: the follower branch when *followerHandle,
\* the leader's otherwise
unaryBody ==
  /\ unary.pc = "body"
  /\ unary' = [unary EXCEPT
                 !.pc = "idle",
                 !.ret = IF unary.followerHandle THEN "follower body"
                         ELSE "leader body"]
  /\ UNCHANGED <<isClosed, isServing>>
  /\ UNCHANGED ElseOfRole

InitRoleSpec ==
  /\ InitOracle
  /\ watch = "issue"
  /\ members = {"pd1"}
  /\ InitProxyIdle
  /\ InitOthers

NextRole ==
  \/ roleChange
  \/ serverClose
  \/ \E local, allow, optIn, clusterOk \in BOOLEAN:
       unaryEnter(local, allow, optIn, clusterOk)
  \/ unaryFollowerMiddleware
  \/ unaryBody

SpecRole == InitRoleSpec /\ [][NextRole]_vars

-----------------------------------------------------------------------------
\* One client TSO stream: GrpcServer.Tso, forwardToTSOService and
\* handleTSOForwarding.  The timestamps are left out, a response is the index
\* of the request it was made for and its count.  The requests a follower
\* hands to the tsoDispatcher leave the model there.

TsoCounts == 0..MaxTsoCount

\* a response with count 1 whatever was asked
responseOfOne(i, count) == [req |-> i, count |-> 1]

\* pdpb.TsoResponse{Count: count} for the i-th request
responseOf(i, count) == [req |-> i, count |-> count]

\* the TSO service answers the requests of a forward stream in their order,
\* each with the count it asked for
tsoServiceAnswer(inflight) == Head(inflight)

\* the call returns err
tsoReturn(err) ==
  /\ tsoCall' = [tsoCall EXCEPT !.pc = "idle", !.ret = err]
  /\ forwarder' = NoStream

\* the TSO service is split off or merged back
serviceModeChange ==
  /\ independent' = ~independent
  /\ UNCHANGED <<tsoIn, tsoOut, tsoCall, forwarder>>
  /\ UNCHANGED <<isClosed, isServing, unary>>
  /\ UNCHANGED ElseOfStream

\* the server is closed or started again while the stream is served
tsoServerClose ==
  /\ isClosed' = ~isClosed
  /\ UNCHANGED <<isServing, unary, streamVars>>
  /\ UNCHANGED ElseOfStream

\* Tso is called with a new client stream: forwardToTSOService takes it when
\* the TSO service is independent
tsoOpen(local) ==
  /\ tsoCall.pc = "idle"
  /\ tsoCall' = [pc |-> "recv",
                 loop |-> IF independent THEN "forwardToTSOService" ELSE "Tso",
                 local |-> local, count |-> 0, resp |-> NoResponse,
                 ret |-> "none"]
  /\ tsoIn' = <<>>
  /\ tsoOut' = <<>>
  /\ forwarder' = NoStream
  /\ UNCHANGED <<independent, isClosed, isServing, unary>>
  /\ UNCHANGED ElseOfStream

\* stream.Recv returns the next request of the client
tsoRecv(count) ==
  /\ tsoCall.pc = "recv"
  /\ Len(tsoIn) < MaxReqs
  /\ tsoIn' = Append(tsoIn, count)
  /\ tsoCall' = [tsoCall EXCEPT !.pc = "request", !.count = count]
  /\ UNCHANGED <<independent, tsoOut, forwarder, isClosed, isServing, unary>>
  /\ UNCHANGED ElseOfStream

\* stream.Recv returns io.EOF or an error, or the receive times out
tsoRecvFail(err) ==
  /\ tsoCall.pc = "recv"
  /\ err = "timeout" => tsoCall.loop = "forwardToTSOService"
  /\ tsoReturn(err)
  /\ UNCHANGED <<independent, tsoIn, tsoOut, isClosed, isServing, unary>>
  /\ UNCHANGED ElseOfStream

\* the loop body up to the response or the forwarding of the request
tsoRequest(clusterOk, generated) ==
  /\ tsoCall.pc = "request"
  /\ IF tsoCall.loop = "forwardToTSOService"
       THEN IF tsoCall.count = 0
              THEN tsoReturn("ErrGenerateTimestamp")
              ELSE /\ tsoCall' = [tsoCall EXCEPT !.pc = "forward"]
                   /\ UNCHANGED forwarder
     ELSE IF isClosed THEN tsoReturn("ErrNotStarted")
     ELSE IF ~tsoCall.local
       THEN /\ tsoCall' = [tsoCall EXCEPT !.pc = "dispatched"]
            /\ UNCHANGED forwarder
     ELSE IF independent
       THEN IF tsoCall.count = 0
              THEN tsoReturn("ErrGenerateTimestamp")
              ELSE /\ tsoCall' = [tsoCall EXCEPT !.pc = "forward"]
                   /\ UNCHANGED forwarder
     ELSE IF ~clusterOk THEN tsoReturn("ErrMismatchClusterID")
     ELSE IF tsoCall.count = 0 \/ ~generated
       THEN tsoReturn("ErrGenerateTimestamp")
     ELSE /\ tsoCall' = [tsoCall EXCEPT
                           !.pc = "send",
                           !.resp = responseOf(Len(tsoIn), tsoCall.count)]
          /\ UNCHANGED forwarder
  /\ UNCHANGED <<independent, tsoIn, tsoOut, isClosed, isServing, unary>>
  /\ UNCHANGED ElseOfStream

\* handleTSOForwarding up to the Send on the forward stream: the stream is
\* built anew when there is none or the primary has moved
tsoForward(targetHost, built, sent) ==
  /\ tsoCall.pc = "forward"
  /\ IF targetHost = 0 THEN tsoReturn("ErrNotFoundTSOAddr")
     ELSE IF (forwarder.host # targetHost) /\ ~built
       THEN tsoReturn("forward stream error")
     ELSE IF ~sent THEN tsoReturn("forward stream error")
     ELSE /\ forwarder' =
               [host |-> targetHost,
                inflight |->
                  IF forwarder.host # targetHost
                    THEN <<[req |-> Len(tsoIn), count |-> tsoCall.count]>>
                    ELSE Append(forwarder.inflight,
                                [req |-> Len(tsoIn), count |-> tsoCall.count])]
          /\ tsoCall' = [tsoCall EXCEPT !.pc = "answer"]
  /\ UNCHANGED <<independent, tsoIn, tsoOut, isClosed, isServing, unary>>
  /\ UNCHANGED ElseOfStream

\* forwardTSORequest, the Recv on the forward stream: the answer of the TSO
\* service, or the stream fails or the deadline cancels it
tsoAnswer(ok) ==
  /\ tsoCall.pc = "answer"
  /\ IF ~ok THEN tsoReturn("forward stream error")
     ELSE /\ tsoCall' = [tsoCall EXCEPT
                           !.pc = "send",
                           !.resp = tsoServiceAnswer(forwarder.inflight)]
          /\ forwarder' = [forwarder EXCEPT !.inflight = Tail(@)]
  /\ UNCHANGED <<independent, tsoIn, tsoOut, isClosed, isServing, unary>>
  /\ UNCHANGED ElseOfStream

\* the response is sent on the client stream, or the Send fails
tsoSend(ok) ==
  /\ tsoCall.pc = "send"
  /\ IF ok
       THEN /\ tsoOut' = Append(tsoOut, tsoCall.resp)
            /\ tsoCall' = [tsoCall EXCEPT !.pc = "recv"]
            /\ UNCHANGED forwarder
       ELSE /\ tsoReturn("send error")
            /\ UNCHANGED tsoOut
  /\ UNCHANGED <<independent, tsoIn, isClosed, isServing, unary>>
  /\ UNCHANGED ElseOfStream

InitStreamSpec ==
  /\ InitOracle
  /\ watch = "issue"
  /\ members = {"pd1"}
  /\ InitProxyIdle
  /\ InitOthers

NextStream ==
  \/ serviceModeChange
  \/ tsoServerClose
  \/ \E local \in BOOLEAN: tsoOpen(local)
  \/ \E count \in TsoCounts: tsoRecv(count)
  \/ \E err \in {"io.EOF", "error", "timeout"}: tsoRecvFail(err)
  \/ \E clusterOk, generated \in BOOLEAN: tsoRequest(clusterOk, generated)
  \/ \E targetHost \in 0..MaxHosts, built, sent \in BOOLEAN:
       tsoForward(targetHost, built, sent)
  \/ \E ok \in BOOLEAN: tsoAnswer(ok)
  \/ \E ok \in BOOLEAN: tsoSend(ok)

SpecStream == InitStreamSpec /\ [][NextStream]_vars

-----------------------------------------------------------------------------
\* GrpcServer.RegionHeartbeat, one iteration of its loop per request, up to
\* HandleRegionHeartbeat.  A request is whether it is for this member, whether
\* the cluster is bootstrapped, whether its header has the cluster id, the
\* store id of its leader peer (NilPeer for none), its region id, the number
\* of its peers and whether HandleRegionHeartbeat fails on it.

StoreIds == 0..MaxStoreId
HeartbeatRequests ==
  [local : BOOLEAN, bootstrapped : BOOLEAN, clusterOk : BOOLEAN,
   leader : {NilPeer} \cup StoreIds, id : 0..MaxRegionId,
   peers : 0..MaxPeers, handleErr : BOOLEAN]

\* request.GetLeader().GetStoreId(): 0 when there is no leader peer
GetStoreId(peer) == IF peer = NilPeer THEN 0 ELSE peer

\* rc.GetStore(storeID) finds the store
GetStore(storeID) == storeID \in stores

\* core.RegionFromHeartbeat: leader, id and peers are the request's
RegionFromHeartbeat(req) ==
  [leader |-> req.leader, id |-> req.id, peers |-> req.peers]

\* the checks on the region, the one on the peers left out
invalidRegionPeersUnchecked(region) ==
  IF region.leader = NilPeer THEN "invalid request leader"
  ELSE IF region.id = 0 THEN "invalid request region"
  ELSE "nil"

\* the three checks on the region: the message sent for an invalid one
invalidRegion(region) ==
  IF region.leader = NilPeer THEN "invalid request leader"
  ELSE IF region.id = 0 THEN "invalid request region"
  ELSE IF region.peers = 0 THEN "invalid region, zero region peer count"
  ELSE "nil"

\* what one iteration does with a request: out is "forwarded" or "continue"
\* when the loop goes on and the error when the call returns; sent is the
\* message given to hbStreams.SendErr
regionHeartbeatRequest(req) ==
  LET validate == validateRoleInRequest(FALSE, FALSE, req.clusterOk)
      region == RegionFromHeartbeat(req)
  IN IF ~req.local
       THEN [out |-> "forwarded", sent |-> "none", handled |-> FALSE]
     ELSE IF ~req.bootstrapped
       THEN [out |-> "not bootstrapped", sent |-> "none", handled |-> FALSE]
     ELSE IF validate.err # "nil"
       THEN [out |-> validate.err, sent |-> "none", handled |-> FALSE]
     ELSE IF ~GetStore(GetStoreId(req.leader))
       THEN [out |-> "invalid store ID", sent |-> "none", handled |-> FALSE]
     ELSE IF invalidRegion(region) # "nil"
       THEN [out |-> "continue", sent |-> invalidRegion(region),
             handled |-> FALSE]
     ELSE [out |-> "continue",
           sent |-> IF req.handleErr THEN "err.Error()" ELSE "none",
           handled |-> TRUE]

\* a store opens its region heartbeat stream
heartbeatOpen ==
  /\ heartbeat.pc = "idle"
  /\ heartbeat' = [IdleHeartbeat EXCEPT !.pc = "recv"]
  /\ UNCHANGED <<stores, isClosed, isServing, unary>>
  /\ UNCHANGED ElseOfHeartbeat

\* server.Recv returns io.EOF or an error: the call returns
heartbeatRecvFail ==
  /\ heartbeat.pc = "recv"
  /\ heartbeat' = [heartbeat EXCEPT !.pc = "idle"]
  /\ UNCHANGED <<stores, isClosed, isServing, unary>>
  /\ UNCHANGED ElseOfHeartbeat

\* server.Recv returns a request and the iteration runs
heartbeatRecv(req) ==
  /\ heartbeat.pc = "recv"
  /\ LET r == regionHeartbeatRequest(req)
     IN heartbeat' =
          [pc |-> IF r.out \in {"forwarded", "continue"} THEN "recv"
                  ELSE "idle",
           req |-> req, out |-> r.out, sent |-> r.sent,
           handled |-> r.handled]
  /\ UNCHANGED <<stores, isClosed, isServing, unary>>
  /\ UNCHANGED ElseOfHeartbeat

\* the lease is won or lost, the server closed or started, between requests
heartbeatRoleChange ==
  /\ \/ isServing' = ~isServing /\ UNCHANGED isClosed
     \/ isClosed' = ~isClosed /\ UNCHANGED isServing
  /\ UNCHANGED <<unary, streamVars, hbVars>>
  /\ UNCHANGED ElseOfStream

InitHeartbeatSpec ==
  /\ InitOracle
  /\ watch = "issue"
  /\ members = {"pd1"}
  /\ InitProxyIdle
  /\ InitPool
  /\ InitWrap("heartbeatServer")
  /\ InitRole
  /\ InitStream
  /\ InitLater
  /\ \E ids \in SUBSET StoreIds: InitHeartbeat(ids)

NextHeartbeat ==
  \/ heartbeatOpen
  \/ heartbeatRecvFail
  \/ \E req \in HeartbeatRequests: heartbeatRecv(req)
  \/ heartbeatRoleChange

SpecHeartbeat == InitHeartbeatSpec /\ [][NextHeartbeat]_vars

-----------------------------------------------------------------------------
\* GrpcServer.BatchScanRegions: the validation of the requested key ranges.
\* A key is a sequence of bytes, here the empty key and the keys of one byte.

Keys == {<<>>} \cup {<<b>> : b \in 0..MaxByte}
KeyRange == [StartKey : Keys, EndKey : Keys]
ScanRequests == UNION {[1..n -> KeyRange] : n \in 0..MaxRanges}

\* bytes.Compare: -1, 0 or 1 by the lexicographic order
RECURSIVE bytesCompare(_, _)
bytesCompare(a, b) ==
  IF a = <<>> /\ b = <<>> THEN 0
  ELSE IF a = <<>> THEN -1
  ELSE IF b = <<>> THEN 1
  ELSE IF Head(a) < Head(b) THEN -1
  ELSE IF Head(a) > Head(b) THEN 1
  ELSE bytesCompare(Tail(a), Tail(b))

\* the loop over the requested ranges from the i-th on: the error of the
\* first range that fails a check, "nil" when all pass
RECURSIVE checkRanges(_, _)
checkRanges(reqRanges, i) ==
  IF i > Len(reqRanges) THEN "nil"
  ELSE IF i > 1
          /\ bytesCompare(reqRanges[i].StartKey, reqRanges[i - 1].EndKey) < 0
    THEN "invalid key range, ranges overlapped"
  ELSE IF Len(reqRanges[i].EndKey) > 0
          /\ bytesCompare(reqRanges[i].StartKey, reqRanges[i].EndKey) > 0
    THEN "invalid key range, start key > end key"
  ELSE checkRanges(reqRanges, i + 1)

\* BatchScanRegions on the request scanRanges: the middleware, the cluster,
\* the ranges, the scan
BatchScanRegions(local, optIn, clusterOk, ready, scanErr) ==
  /\ scan.out = "none"
  /\ LET validate == validateRoleInRequest(TRUE, optIn, clusterOk)
         ranges == checkRanges(scanRanges, 1)
     IN scan' =
          IF ~local THEN [out |-> "forwarded", scanned |-> FALSE]
          ELSE IF validate.err # "nil"
            THEN [out |-> validate.err, scanned |-> FALSE]
          ELSE IF ~ready
            THEN [out |-> IF validate.allowFollower THEN "regionNotFound"
                          ELSE "notBootstrapped",
                  scanned |-> FALSE]
          ELSE IF ranges # "nil" THEN [out |-> ranges, scanned |-> FALSE]
          ELSE [out |-> IF scanErr THEN "scan error" ELSE "regions",
                scanned |-> TRUE]
  /\ UNCHANGED <<scanRanges, isClosed, isServing, unary>>
  /\ UNCHANGED ElseOfScanRole

\* the lease is won or lost, the server closed or started, between requests
scanRoleChange ==
  /\ \/ isServing' = ~isServing /\ UNCHANGED isClosed
     \/ isClosed' = ~isClosed /\ UNCHANGED isServing
  /\ UNCHANGED <<unary, scanVars>>
  /\ UNCHANGED ElseOfScanRole

InitScanSpec ==
  /\ InitOracle
  /\ watch = "issue"
  /\ members = {"pd1"}
  /\ InitProxyIdle
  /\ InitPool
  /\ InitWrap("heartbeatServer")
  /\ InitRole
  /\ InitStream
  /\ InitHeartbeat({1})
  /\ InitJobs
  /\ InitLast
  /\ \E ranges \in ScanRequests: InitScan(ranges)

NextScan ==
  \/ \E local, optIn, clusterOk, ready, scanErr \in BOOLEAN:
       BatchScanRegions(local, optIn, clusterOk, ready, scanErr)
  \/ scanRoleChange

SpecScan == InitScanSpec /\ [][NextScan]_vars

-----------------------------------------------------------------------------
\* The jobs of the balance-range scheduler: balanceRangeSchedulerConfig and
\* the part of IsScheduleAllowed that begins and finishes them.  A job is its
\* JobID, Alias and Status, whether its Start is set, the rank fin of its
\* Finish, whether reserveDuration has passed since its Finish (old), and
\* the place uid of its addition among all additions; uid is not a field of
\* the program.  The key-range manager holds the Ranges of the jobs of
\* keyRanges.

Aliases == 1..MaxAlias

\* a job counted as complete only when cancelled
isCompleteCancelledOnly(job) == job.Status = "cancelled"

\* job.isComplete()
isComplete(job) == job.Status \in {"finished", "cancelled"}

\* addJob's loop over the jobs, were it to skip the jobs that are not complete
aliasExistsComplete(alias) ==
  \E i \in 1..Len(jobs): isComplete(jobs[i]) /\ jobs[i].Alias = alias

\* addJob's loop over the jobs: a job that is not complete has the alias
aliasExists(alias) ==
  \E i \in 1..Len(jobs): ~isComplete(jobs[i]) /\ jobs[i].Alias = alias

\* balanceRangeSchedulerConfig.cloneLocked: a copy of every job, field by
\* field
cloneLocked(list) ==
  [i \in 1..Len(list) |->
     [uid |-> list[i].uid, JobID |-> list[i].JobID, Alias |-> list[i].Alias,
      Status |-> list[i].Status, Start |-> list[i].Start,
      fin |-> list[i].fin, old |-> list[i].old]]

\* persistLocked, were it to keep what updateFn did when conf.save fails
persistLockedNoRestore(updated, saved) ==
  jobs' = updated

\* balanceRangeSchedulerConfig.persistLocked: updateFn turns the jobs into
\* updated; when conf.save fails the copy taken before updateFn is put back
persistLocked(updated, saved) ==
  jobs' = IF saved THEN updated ELSE cloneLocked(jobs)

\* KeyRangeManager.Append with the Ranges of a job
kmAppend(uid) == keyRanges \cup {uid}

\* KeyRangeManager.Delete with the Ranges of a job
kmDelete(uid) == keyRanges \ {uid}

\* a peek that passes over the running jobs too
peekPending(list) ==
  LET open == {i \in 1..Len(list) : list[i].Status = "pending"}
  IN IF open = {} THEN 0 ELSE CHOOSE i \in open : \A j \in open : i <= j

\* balanceRangeSchedulerConfig.peek: the place of the first job that is not
\* complete, 0 without such a job
peek(list) ==
  LET open == {i \in 1..Len(list) : ~isComplete(list[i])}
  IN IF open = {} THEN 0 ELSE CHOOSE i \in open : \A j \in open : i <= j

\* the JobID of the next job: one more than the last job's, 1 without jobs
nextJobID ==
  IF Len(jobs) = 0 THEN 1 ELSE jobs[Len(jobs)].JobID + 1

\* balanceRangeSchedulerConfig.addJob; saved says whether conf.save succeeds
addJob(alias, saved) ==
  /\ Len(issued) < MaxAdds
  /\ Len(jobs) < MaxJobs
  /\ IF aliasExists(alias)
       THEN /\ lastAdd' = "job already exists"
            /\ UNCHANGED <<jobs, issued>>
     ELSE /\ persistLocked(Append(jobs, [uid |-> Len(issued) + 1,
                                         JobID |-> nextJobID,
                                         Alias |-> alias,
                                         Status |-> "pending",
                                         Start |-> "nil", fin |-> 0,
                                         old |-> FALSE]), saved)
          /\ lastAdd' = IF saved THEN "nil" ELSE "save error"
          /\ issued' = IF saved THEN Append(issued, nextJobID) ELSE issued
  /\ UNCHANGED <<lastDel, sched, keyRanges>>
  /\ UNCHANGED ElseOfJobs

\* job.Finish = &now, as a rank: later than the Finish of every job listed
nextFinish ==
  LET ranks == {jobs[i].fin : i \in 1..Len(jobs)} \cup {0}
  IN 1 + CHOOSE m \in ranks : \A r \in ranks : r <= m

\* deleteJob, were it to cancel the job of that id whatever its status
deleteJobAnyStatus(jobID, saved) ==
  /\ LET found == {i \in 1..Len(jobs) : jobs[i].JobID = jobID}
     IN IF found = {}
          THEN /\ lastDel' = "ErrScheduleConfigNotExist"
               /\ UNCHANGED jobs
        ELSE LET i == CHOOSE i \in found : \A j \in found : i <= j
             IN /\ persistLocked([jobs EXCEPT ![i].Status = "cancelled",
                                               ![i].Start = "set",
                                               ![i].fin = nextFinish],
                                 saved)
                /\ lastDel' = IF saved THEN "nil" ELSE "save error"
  /\ UNCHANGED <<issued, lastAdd, sched, keyRanges>>
  /\ UNCHANGED ElseOfJobs

\* balanceRangeSchedulerConfig.deleteJob: the first job of that id is
\* cancelled unless it is complete; saved says whether conf.save succeeds
deleteJob(jobID, saved) ==
  /\ LET found == {i \in 1..Len(jobs) : jobs[i].JobID = jobID}
     IN IF found = {}
          THEN /\ lastDel' = "ErrScheduleConfigNotExist"
               /\ UNCHANGED jobs
        ELSE LET i == CHOOSE i \in found : \A j \in found : i <= j
             IN IF isComplete(jobs[i])
                  THEN /\ lastDel' = "ErrInvalidArgument"
                       /\ UNCHANGED jobs
                ELSE /\ persistLocked(
                          [jobs EXCEPT ![i].Status = "cancelled",
                                       ![i].Start = "set",
                                       ![i].fin = nextFinish], saved)
                     /\ lastDel' = IF saved THEN "nil" ELSE "save error"
  /\ UNCHANGED <<issued, lastAdd, sched, keyRanges>>
  /\ UNCHANGED ElseOfJobs

\* time passes: job.expired(reserveDuration) becomes true of a completed
\* job, after it has for the jobs that finished earlier
reserveElapsed(i) ==
  /\ i \in 1..Len(jobs)
  /\ isComplete(jobs[i])
  /\ ~jobs[i].old
  /\ \A j \in 1..Len(jobs):
       isComplete(jobs[j]) /\ jobs[j].fin < jobs[i].fin => jobs[j].old
  /\ jobs' = [jobs EXCEPT ![i].old = TRUE]
  /\ UNCHANGED <<issued, lastAdd, lastDel, sched, keyRanges>>
  /\ UNCHANGED ElseOfJobs

\* the number of jobs gc drops: the completed and expired ones at the front
RECURSIVE gcCount(_)
gcCount(i) ==
  IF i <= Len(jobs) /\ isComplete(jobs[i]) /\ jobs[i].old
    THEN 1 + gcCount(i + 1)
    ELSE 0

\* IsScheduleAllowed, first part: gc, then peek
schedGcPeek(saved) ==
  /\ sched.pc = "idle"
  /\ IF gcCount(1) > 0
       THEN persistLocked(SubSeq(jobs, gcCount(1) + 1, Len(jobs)), saved)
       ELSE UNCHANGED jobs
  /\ IF gcCount(1) > 0 /\ ~saved
       THEN sched' = IdleSched
       ELSE LET index == peek(jobs')
            IN IF index = 0
                 THEN sched' = IdleSched
                 ELSE sched' = [pc |-> "peeked", index |-> index,
                                status |-> jobs'[index].Status]
  /\ UNCHANGED <<issued, lastAdd, lastDel, keyRanges>>
  /\ UNCHANGED ElseOfJobs

\* IsScheduleAllowed, second part: begin on a job peeked as pending, then
\* km.Append(job.Ranges)
begin(saved) ==
  /\ sched.pc = "peeked"
  /\ sched.status = "pending"
  /\ IF jobs[sched.index].Status # "pending"
       THEN /\ UNCHANGED <<jobs, keyRanges>>
            /\ sched' = IdleSched
       ELSE /\ persistLocked([jobs EXCEPT ![sched.index].Status = "running",
                                          ![sched.index].Start = "set"],
                             saved)
            /\ IF saved
                 THEN /\ keyRanges' = kmAppend(jobs[sched.index].uid)
                      /\ sched' = [sched EXCEPT !.status = "running"]
                 ELSE /\ UNCHANGED keyRanges
                      /\ sched' = IdleSched
  /\ UNCHANGED <<issued, lastAdd, lastDel>>
  /\ UNCHANGED ElseOfJobs

\* the last part of IsScheduleAllowed, were it to finish the job and leave
\* its Ranges with the key-range manager
finishKeepsRanges(timedOut, saved) ==
  /\ sched.pc = "peeked"
  /\ sched.status = "running"
  /\ IF timedOut /\ jobs[sched.index].Status = "running"
       THEN persistLocked([jobs EXCEPT ![sched.index].Status = "finished",
                                      ![sched.index].fin = nextFinish],
                         saved)
       ELSE UNCHANGED jobs
  /\ sched' = IdleSched
  /\ UNCHANGED <<issued, lastAdd, lastDel, keyRanges>>
  /\ UNCHANGED ElseOfJobs

\* IsScheduleAllowed, last part: finish when the job has run for its
\* Timeout, then km.Delete(job.Ranges)
finish(timedOut, saved) ==
  /\ sched.pc = "peeked"
  /\ sched.status = "running"
  /\ IF timedOut /\ jobs[sched.index].Status = "running"
       THEN /\ persistLocked([jobs EXCEPT ![sched.index].Status = "finished",
                                          ![sched.index].fin = nextFinish],
                             saved)
            /\ keyRanges' = IF saved THEN kmDelete(jobs[sched.index].uid)
                                     ELSE keyRanges
       ELSE UNCHANGED <<jobs, keyRanges>>
  /\ sched' = IdleSched
  /\ UNCHANGED <<issued, lastAdd, lastDel>>
  /\ UNCHANGED ElseOfJobs

\* the job the scheduler is created with: the decoder gives it the JobID 0
decodedJob(alias) ==
  [uid |-> 1, JobID |-> 0, Alias |-> alias, Status |-> "pending",
   Start |-> "nil", fin |-> 0, old |-> FALSE]

InitJobsSpec ==
  /\ InitOracle
  /\ watch = "issue"
  /\ members = {"pd1"}
  /\ InitProxyIdle
  /\ InitPool
  /\ InitWrap("heartbeatServer")
  /\ InitRole
  /\ InitStream
  /\ InitHeartbeat({1})
  /\ InitScan(<<>>)
  /\ InitLast
  /\ \E first \in {<<>>} \cup {<<decodedJob(alias)>> : alias \in Aliases}:
       InitJobsWith(first)

NextJobs ==
  \/ \E alias \in Aliases, saved \in BOOLEAN: addJob(alias, saved)
  \/ \E jobID \in 0..MaxAdds, saved \in BOOLEAN: deleteJob(jobID, saved)
  \/ \E i \in 1..MaxJobs: reserveElapsed(i)
  \/ \E saved \in BOOLEAN: schedGcPeek(saved)
  \/ \E saved \in BOOLEAN: begin(saved)
  \/ \E timedOut, saved \in BOOLEAN: finish(timedOut, saved)

SpecJobs == InitJobsSpec /\ [][NextJobs]_vars

-----------------------------------------------------------------------------
(* The store endpoints: storeHandler.DeleteStore and SetStoreState of       *)
(* server/api/store.go, GrpcServer.PutStore.  The RaftCluster they call is  *)
(* not part of the sources: PutMetaStore and RemoveStore follow the         *)
(* contract of the cluster state store, UpStore what SetStoreState          *)
(* documents.                                                               *)

StoreStates == {"Up", "Offline", "Tombstone"}

\* the state strings of the requests
StateStrings == {"Up", "up", "Offline", "offline", "Tombstone", ""}

\* the case folding of strings.EqualFold on these strings
Fold(str) ==
  CASE str \in {"Up", "up"} -> "UP"
    [] str \in {"Offline", "offline"} -> "OFFLINE"
    [] str = "Tombstone" -> "TOMBSTONE"
    [] OTHER -> str

\* strings.EqualFold
EqualFold(a, b) == Fold(a) = Fold(b)

\* store.IsRemoved
IsRemoved(id) == storeStates[id] = "Tombstone"

\* checkStore, were it to let every store pass
checkStoreNever(id) == "nil"

\* checkStore: an error if the store exists and is in tombstone state
checkStore(id) ==
  IF storeStates[id] # "none" /\ IsRemoved(id)
    THEN "STORE_TOMBSTONE"
    ELSE "nil"

\* rc.PutMetaStore: upsert of the meta; re-Up of a Tombstone is rejected
PutMetaStore(id, state) ==
  IF storeStates[id] = "Tombstone" /\ state = "Up"
    THEN [err |-> "ErrStoreRemoved", states |-> storeStates]
    ELSE [err |-> "nil", states |-> [storeStates EXCEPT ![id] = state]]

\* rc.RemoveStore: Up -> Offline, force-Tombstone when force; idempotent
RemoveStore(id, force) ==
  IF storeStates[id] = "none"
    THEN [err |-> "ErrStoreNotFound", states |-> storeStates]
  ELSE IF storeStates[id] = "Tombstone"
    THEN [err |-> "ErrStoreRemoved", states |-> storeStates]
  ELSE IF force
    THEN [err |-> "nil", states |-> [storeStates EXCEPT ![id] = "Tombstone"]]
    ELSE [err |-> "nil", states |-> [storeStates EXCEPT ![id] = "Offline"]]

\* rc.UpStore: the store's state is updated to Up
UpStore(id) ==
  IF storeStates[id] = "none"
    THEN [err |-> "ErrStoreNotFound", states |-> storeStates]
  ELSE IF storeStates[id] = "Tombstone"
    THEN [err |-> "ErrStoreRemoved", states |-> storeStates]
    ELSE [err |-> "nil", states |-> [storeStates EXCEPT ![id] = "Up"]]

\* storeHandler.responseStoreErr, and the 200 of the handlers
responseStoreErr(err) ==
  CASE err = "nil" -> "StatusOK"
    [] err = "ErrStoreNotFound" -> "StatusNotFound"
    [] err = "ErrStoreRemoved" -> "StatusGone"
    [] OTHER -> "StatusBadRequest"

\* GrpcServer.PutStore on the leader, past the middleware
PutStore(id, state, bootstrapped, placementOk) ==
  /\ IF ~bootstrapped
       THEN /\ storeResp' = [op |-> "PutStore", code |-> "NOT_BOOTSTRAPPED"]
            /\ UNCHANGED storeStates
     ELSE IF checkStore(id) # "nil"
       THEN /\ storeResp' = [op |-> "PutStore", code |-> checkStore(id)]
            /\ UNCHANGED storeStates
     ELSE IF ~placementOk \/ PutMetaStore(id, state).err # "nil"
       THEN /\ storeResp' = [op |-> "PutStore", code |-> "UNKNOWN"]
            /\ UNCHANGED storeStates
     ELSE /\ storeResp' = [op |-> "PutStore", code |-> "OK"]
          /\ storeStates' = PutMetaStore(id, state).states
  /\ UNCHANGED ElseOfStores

\* storeHandler.DeleteStore
DeleteStore(id, force) ==
  /\ storeStates' = RemoveStore(id, force).states
  /\ storeResp' = [op |-> "DeleteStore",
                   code |-> responseStoreErr(RemoveStore(id, force).err)]
  /\ UNCHANGED ElseOfStores

\* storeHandler.SetStoreState
SetStoreState(id, stateStr) ==
  /\ LET res == IF EqualFold(stateStr, "Up") THEN UpStore(id)
                ELSE IF EqualFold(stateStr, "Offline")
                  THEN RemoveStore(id, FALSE)
                ELSE [err |-> "invalid state", states |-> storeStates]
     IN /\ storeStates' = res.states
        /\ storeResp' = [op |-> "SetStoreState",
                         code |-> responseStoreErr(res.err)]
  /\ UNCHANGED ElseOfStores

\* an Offline store becomes Tombstone automatically
buryStore(id) ==
  /\ storeStates[id] = "Offline"
  /\ storeStates' = [storeStates EXCEPT ![id] = "Tombstone"]
  /\ UNCHANGED storeResp
  /\ UNCHANGED ElseOfStores

InitStoresSpec ==
  /\ Init

NextStores ==
  \/ \E id \in 1..MaxStores, state \in StoreStates,
        bootstrapped, placementOk \in BOOLEAN:
       PutStore(id, state, bootstrapped, placementOk)
  \/ \E id \in 1..MaxStores, force \in BOOLEAN: DeleteStore(id, force)
  \/ \E id \in 1..MaxStores, stateStr \in StateStrings:
       SetStoreState(id, stateStr)
  \/ \E id \in 1..MaxStores: buryStore(id)

SpecStores == InitStoresSpec /\ [][NextStores]_vars

-----------------------------------------------------------------------------
(* The regionTree of pkg/core.  Only its tests are part of the sources      *)
(* (region_tree_test.go); update, remove and overlaps follow the            *)
(* specification of the region tree and what the tests assert.              *)

\* the regions of the tests: a start key below the end key, or no end key
TreeRegions ==
  {r \in [id : 1..MaxTreeId, StartKey : Keys, EndKey : Keys] :
     r.EndKey = <<>> \/ bytesCompare(r.StartKey, r.EndKey) < 0}

\* regionItem.contain: the key is in [StartKey, EndKey), no end key being
\* the end of the key space
contain(region, key) ==
  /\ bytesCompare(key, region.StartKey) >= 0
  /\ (region.EndKey = <<>> \/ bytesCompare(key, region.EndKey) < 0)

\* tree.overlaps, were an empty end key a key like the others
overlapsEndAsKey(item) ==
  {r \in tree :
     /\ bytesCompare(r.StartKey, item.EndKey) < 0
     /\ bytesCompare(item.StartKey, r.EndKey) < 0}

\* tree.overlaps: the stored regions whose range meets the item's
overlaps(item) ==
  {r \in tree :
     /\ (item.EndKey = <<>> \/ bytesCompare(r.StartKey, item.EndKey) < 0)
     /\ (r.EndKey = <<>> \/ bytesCompare(item.StartKey, r.EndKey) < 0)}

\* tree.search: the stored regions that contain the key
search(key) == {r \in tree : contain(r, key)}

\* tree.update: the overlapping regions are removed, then the region is
\* inserted
update(region) ==
  /\ tree' = (tree \ overlaps(region)) \cup {region}
  /\ treeOp' = [op |-> "update", dropped |-> Cardinality(overlaps(region))]
  /\ UNCHANGED ElseOfTree

\* tree.remove: the region stored at the start key goes if it has the id
remove(region) ==
  /\ LET found == {r \in search(region.StartKey) : r.id = region.id}
     IN /\ tree' = tree \ found
        /\ treeOp' = [op |-> "remove", dropped |-> Cardinality(found)]
  /\ UNCHANGED ElseOfTree

InitTreeSpec ==
  /\ Init

NextTree ==
  \/ \E region \in TreeRegions: update(region)
  \/ \E region \in TreeRegions: remove(region)

SpecTree == InitTreeSpec /\ [][NextTree]_vars

-----------------------------------------------------------------------------
\* The unary endpoints step by step.  endpoint.trace lists what the call has
\* done so far: "rateLimitCheck", "forward" (the request handed to the
\* forwarded host), "validateRole" and "checkClusterID" (the two halves of
\* validateRoleInRequest), "GetRaftCluster" (the cluster read),
\* "scheduling" (the request handed to the scheduling service) and
\* "handler" (the endpoint's own work).

\* GetStore stands for the endpoints that go from the rate limit straight to
\* the middleware; ScatterRegion and GetOperator turn to the cluster and the
\* scheduling service first
Endpoints == {"GetStore", "ScatterRegion", "GetOperator"}
SchedulingFirst == {"ScatterRegion", "GetOperator"}

\* the call has taken step
did(step) == [endpoint EXCEPT !.trace = Append(@, step)]

\* the call returns code
answer(e, code) == [e EXCEPT !.pc = "idle", !.ret = code]

\* a unary request arrives at an endpoint
endpointEnter(name, local, clusterOk) ==
  /\ endpoint.pc = "idle"
  /\ endpoint' = [name |-> name, pc |-> "rateLimitCheck", local |-> local,
                  clusterOk |-> clusterOk, trace |-> <<>>, ret |-> "none"]
  /\ UNCHANGED roleVars
  /\ UNCHANGED ElseOfEndpoint

\* rateLimitCheck and the return of its error; allowed is what the limiter
\* says
rateLimitCheck(allowed) ==
  /\ endpoint.pc = "rateLimitCheck"
  /\ endpoint' =
       IF ~allowed
       THEN answer(did("rateLimitCheck"), "ErrGRPCRateLimitExceeded")
       ELSE [did("rateLimitCheck") EXCEPT
               !.pc = IF endpoint.name \in SchedulingFirst
                      THEN "scheduling" ELSE "middleware"]
  /\ UNCHANGED roleVars
  /\ UNCHANGED ElseOfEndpoint

\* ScatterRegion and GetOperator before their middleware: the cluster is
\* read, and with an independent scheduling service the request goes to its
\* primary.  running says that the server has a running cluster, primary
\* that updateSchedulingClient finds the primary, sent that the call to it
\* succeeds.
schedulingFirst(running, independentScheduling, primary, sent) ==
  /\ endpoint.pc = "scheduling"
  /\ endpoint' =
       IF ~running
       THEN answer(did("GetRaftCluster"), "notBootstrappedHeader")
       ELSE IF ~independentScheduling
       THEN [did("GetRaftCluster") EXCEPT !.pc = "middleware"]
       ELSE IF ~primary
       THEN answer(did("GetRaftCluster"), "ErrNotFoundSchedulingAddr")
       ELSE answer([endpoint EXCEPT
                       !.trace = @ \o <<"GetRaftCluster", "scheduling">>],
                    IF sent THEN "scheduling response"
                    ELSE "scheduling error")
  /\ UNCHANGED roleVars
  /\ UNCHANGED ElseOfEndpoint

\* unaryMiddleware of an endpoint call: unaryFollowerMiddleware with a nil
\* allowFollower.  dialed says that getDelegateClient gives a connection.
endpointMiddleware(dialed) ==
  /\ endpoint.pc = "middleware"
  /\ endpoint' =
       IF ~endpoint.local
       THEN IF dialed THEN answer(did("forward"), "forwarded")
            ELSE answer(endpoint, "dial error")
       ELSE LET v == validateRoleInRequest(FALSE, FALSE, endpoint.clusterOk)
            IN IF v.err \in {"ErrNotStarted", "ErrNotLeader"}
               THEN answer(did("validateRole"), v.err)
               ELSE IF v.err # "nil"
               THEN answer([endpoint EXCEPT
                               !.trace = @ \o <<"validateRole",
                                                "checkClusterID">>], v.err)
               ELSE [endpoint EXCEPT
                       !.trace = @ \o <<"validateRole", "checkClusterID">>,
                       !.pc = "handler"]
  /\ UNCHANGED roleVars
  /\ UNCHANGED ElseOfEndpoint

\* the endpoint's own work after the middleware: GetStore reads the cluster
\* here, the other two have read it
endpointHandler(running) ==
  /\ endpoint.pc = "handler"
  /\ endpoint' =
       IF endpoint.name \in SchedulingFirst
       THEN answer(did("handler"), "response")
       ELSE IF ~running
       THEN answer(did("GetRaftCluster"), "notBootstrappedHeader")
       ELSE answer([endpoint EXCEPT
                       !.trace = @ \o <<"GetRaftCluster", "handler">>],
                    "response")
  /\ UNCHANGED roleVars
  /\ UNCHANGED ElseOfEndpoint

InitEndpointSpec == Init

NextEndpoint ==
  \/ roleChange
  \/ serverClose
  \/ \E name \in Endpoints, local, clusterOk \in BOOLEAN:
       endpointEnter(name, local, clusterOk)
  \/ \E allowed \in BOOLEAN: rateLimitCheck(allowed)
  \/ \E running, independentScheduling, primary, sent \in BOOLEAN:
       schedulingFirst(running, independentScheduling, primary, sent)
  \/ \E dialed \in BOOLEAN: endpointMiddleware(dialed)
  \/ \E running \in BOOLEAN: endpointHandler(running)

SpecEndpoint == InitEndpointSpec /\ [][NextEndpoint]_vars

-----------------------------------------------------------------------------
\* The streaming calls that forward their requests over a stream of their
\* own: forwardToTSOService with handleTSOForwarding, and RegionHeartbeat
\* for a request meant for another member.  fwd.host is forwarder.host or
\* lastForwardedHost (0 for the empty string), fwd.stream says that the
\* forward stream is there, fwd.failed is the host the stream to which has
\* failed with an error that asks for a new connection (0 for none).

ForwardingKinds == {"forwardToTSOService", "RegionHeartbeat"}
StreamErrors == {"needs rebuild", "other"}

\* grpcutil.NeedRebuildConnection
NeedRebuildConnection(err) == err = "needs rebuild"

\* the pool after getDelegateClient(h) has stored a connection for h, and
\* after closeDelegateClient(h)
poolWith(h) ==
  IF Stored(h) # {} THEN <<clientConns, connState>>
  ELSE LET c == CHOOSE c \in Fresh : \A d \in Fresh : c <= d
       IN <<LoadOrStore(h, c), [connState EXCEPT ![c] = "open"]>>
poolWithout(pool, h) ==
  <<{e \in pool[1] : e[1] # h},
    [c \in Conns |-> IF <<h, c>> \in pool[1] THEN "closed" ELSE pool[2][c]]>>

\* the call returns err, its forward stream having failed with it: the
\* deferred function of forwardToTSOService closes the connection of
\* forwarder.host when the error asks for it, RegionHeartbeat only cancels
\* the stream.  pool is the pool the call has come to, to the host the
\* stream to which has failed (0 when no stream was tried).
forwardingFails(pool, to, err) ==
  LET after == IF /\ fwd.kind = "forwardToTSOService"
                  /\ NeedRebuildConnection(err)
               THEN poolWithout(pool, fwd.host) ELSE pool
  IN /\ clientConns' = after[1]
     /\ connState' = after[2]
     /\ fwd' = [fwd EXCEPT
                  !.pc = "idle", !.ret = err, !.stream = FALSE,
                  !.failed = IF NeedRebuildConnection(err) THEN to ELSE 0]

\* the call begins with a new client stream
forwardingOpen(kind) ==
  /\ fwd.pc = "idle"
  /\ fwd' = [kind |-> kind, pc |-> "loop", host |-> 0, stream |-> FALSE,
             failed |-> 0, ret |-> "none"]
  /\ UNCHANGED poolVars
  /\ UNCHANGED ElseOfForwarding

\* the client stream ends: the call returns nil
forwardingEOF ==
  /\ fwd.pc = "loop"
  /\ fwd' = [fwd EXCEPT !.pc = "idle", !.ret = "nil", !.stream = FALSE]
  /\ UNCHANGED poolVars
  /\ UNCHANGED ElseOfForwarding

\* a request for target has been received: the forward stream is built when
\* there is none or the target has changed.  dial is what getDelegateClient
\* gives when it has to dial, created what the creation of the stream gives
\* ("nil" or an error); handleTSOForwarding returns either error as the
\* error of the stream.
forwardingBuild(target, dial, created) ==
  /\ fwd.pc = "loop"
  /\ Stored(target) # {} \/ dial # "nil" \/ Fresh # {}
  /\ IF fwd.stream /\ fwd.host = target
     THEN /\ fwd' = [fwd EXCEPT !.pc = "send"]
          /\ UNCHANGED <<clientConns, connState>>
     ELSE IF Stored(target) = {} /\ dial # "nil"
     THEN forwardingFails(<<clientConns, connState>>, 0, dial)
     ELSE IF created # "nil"
     THEN forwardingFails(poolWith(target), target, created)
     ELSE /\ clientConns' = poolWith(target)[1]
          /\ connState' = poolWith(target)[2]
          /\ fwd' = [fwd EXCEPT !.pc = "send", !.host = target,
                                !.stream = TRUE]
  /\ UNCHANGED delegate
  /\ UNCHANGED ElseOfForwarding

\* the request is sent on the forward stream and, by forwardToTSOService,
\* its answer received: outcome is "nil" or the error of the stream
forwardingSend(outcome) ==
  /\ fwd.pc = "send"
  /\ IF outcome = "nil"
     THEN /\ fwd' = [fwd EXCEPT !.pc = "loop"]
          /\ UNCHANGED <<clientConns, connState>>
     ELSE forwardingFails(<<clientConns, connState>>, fwd.host, outcome)
  /\ UNCHANGED delegate
  /\ UNCHANGED ElseOfForwarding

InitForwardingSpec == Init

NextForwarding ==
  \/ \E kind \in ForwardingKinds: forwardingOpen(kind)
  \/ forwardingEOF
  \/ \E target \in Hosts, dial, created \in {"nil"} \cup StreamErrors:
       forwardingBuild(target, dial, created)
  \/ \E outcome \in {"nil"} \cup StreamErrors: forwardingSend(outcome)

SpecForwarding == InitForwardingSpec /\ [][NextForwarding]_vars

-----------------------------------------------------------------------------
\* The Schedule call of the balance-range scheduler on the job it peeked:
\* prepare builds the plan from the scores of the stores, the loop of
\* Schedule takes the stores as sources in the plan's order, and transferPeer
\* looks for a target among the stores after the source.  What the filters
\* let through, the region picked and whether the operator can be built are
\* inputs.

BalanceStores == 1..MaxBalanceStores
Influences == (0 - MaxInfluence)..MaxInfluence
\* the scores of a store: a few regions, or some hundreds of them
Scores ==
  (0..MaxSmallScore) \cup {LargeScore + k * MaxSmallScore : k \in 0..2}
Engines == {"tikv", "tiflash", "other"}
RegionPicks == {"none", "hot", "no leader", "ok"}

\* prepare's totalScore: the sum of the scores of the sources
RECURSIVE totalOf(_, _)
totalOf(scoreMap, sources) ==
  IF sources = {}
    THEN 0
    ELSE LET s == CHOOSE s \in sources : TRUE
         IN scoreMap[s] + totalOf(scoreMap, sources \ {s})

\* prepare's tolerantSizeRatio: int64(float64(totalScore) * adjustRatio), and
\* 1 when that is less than 1
tolerantSizeRatio(totalScore) ==
  LET ratio == (totalScore * adjustRatioPerMille) \div 1000
  IN IF ratio < 1 THEN 1 ELSE ratio

\* the orders sort.Slice can leave the sources in: no store stands before a
\* store with a greater sum of score and influence
sortedSources(sources, scoreMap, influence) ==
  LET n == Cardinality(sources)
  IN {order \in [1..n -> sources] :
        /\ \A i, j \in 1..n: i # j => order[i] # order[j]
        /\ \A i, j \in 1..n:
             i < j => ~(scoreMap[order[j]] + influence[order[j]] >
                          scoreMap[order[i]] + influence[order[i]])}

\* shouldBalance, were it to compare the scores without the tolerate
shouldBalanceNoTolerate(p, source, target) ==
  LET sourceInf == IF p.influence[source] < 0
                     THEN 0 - p.influence[source]
                     ELSE p.influence[source]
      targetInf == IF p.influence[target] < 0
                     THEN 0 - p.influence[target]
                     ELSE p.influence[target]
  IN p.scoreMap[source] - sourceInf >= p.scoreMap[target] + targetInf

\* balanceRangeSchedulerPlan.shouldBalance
shouldBalance(p, source, target) ==
  LET sourceInf == IF p.influence[source] < 0
                     THEN 0 - p.influence[source]
                     ELSE p.influence[source]
      sourceScore == p.scoreMap[source] - sourceInf - p.tolerate
      targetInf == IF p.influence[target] < 0
                     THEN 0 - p.influence[target]
                     ELSE p.influence[target]
      targetScore == p.scoreMap[target] + targetInf + p.tolerate
  IN sourceScore >= targetScore

\* transferPeer's loop over the candidates from the last to the first: the
\* target it settles on, 0 when it finds none
RECURSIVE targetOf(_, _, _, _)
targetOf(p, source, candidates, i) ==
  IF i > Len(candidates)
    THEN 0
    ELSE LET target == candidates[Len(candidates) - i + 1]
         IN IF p.scoreMap[target] > p.averageScore
              THEN 0
            ELSE IF ~shouldBalance(p, source, target)
              THEN targetOf(p, source, candidates, i + 1)
            ELSE target

\* balanceRangeScheduler.transferPeer: allowed are the stores the target
\* filters let through, created says whether the operator could be built
transferPeer(p, source, dstStores, allowed, created) ==
  LET candidates == SelectSeq(dstStores, LAMBDA s : s \in allowed)
      target == targetOf(p, source, candidates, 1)
  IN IF target = 0 \/ ~created
       THEN NoOp
       ELSE [source |-> source, target |-> target]

\* Schedule up to its loop: peek, and prepare on the job peeked
prepare(hasJob, engine, sources, scoreMap, influence, order) ==
  /\ balance.pc = "idle"
  /\ IF ~hasJob \/ engine = "other" \/ Cardinality(sources) <= 1
       THEN balance' = [IdleBalance EXCEPT !.pc = "done"]
       ELSE balance' =
              [pc |-> "loop", stores |-> order, scoreMap |-> scoreMap,
               influence |-> influence,
               averageScore |-> totalOf(scoreMap, sources) \div
                                  Cardinality(sources),
               tolerate |-> tolerantSizeRatio(totalOf(scoreMap, sources)),
               sourceIndex |-> 1, op |-> NoOp]
  /\ UNCHANGED ElseOfBalance

\* the loop of Schedule goes to its next source, or ends without operator
continue(p) ==
  IF p.sourceIndex + 1 > Len(p.stores)
    THEN [p EXCEPT !.pc = "done"]
    ELSE [p EXCEPT !.sourceIndex = p.sourceIndex + 1]

\* one round of Schedule's loop, were it to go on below the average
ScheduleBelowAverage(region, allowed, created) ==
  /\ balance.pc = "loop"
  /\ LET source == balance.stores[balance.sourceIndex]
         op == transferPeer(balance, source,
                            SubSeq(balance.stores, balance.sourceIndex + 1,
                                   Len(balance.stores)),
                            allowed, created)
     IN IF region # "ok"
          THEN balance' = continue(balance)
        ELSE IF op # NoOp
          THEN balance' = [balance EXCEPT !.pc = "done", !.op = op]
        ELSE balance' = continue(balance)
  /\ UNCHANGED ElseOfBalance

\* one round of Schedule's loop: region is what the pick of a region of the
\* source came to
Schedule(region, allowed, created) ==
  /\ balance.pc = "loop"
  /\ LET source == balance.stores[balance.sourceIndex]
         op == transferPeer(balance, source,
                            SubSeq(balance.stores, balance.sourceIndex + 1,
                                   Len(balance.stores)),
                            allowed, created)
     IN IF balance.scoreMap[source] < balance.averageScore
          THEN balance' = [balance EXCEPT !.pc = "done"]
        ELSE IF region # "ok"
          THEN balance' = continue(balance)
        ELSE IF op # NoOp
          THEN balance' = [balance EXCEPT !.pc = "done", !.op = op]
        ELSE balance' = continue(balance)
  /\ UNCHANGED ElseOfBalance

\* Schedule returns what it has
ScheduleReturn ==
  /\ balance.pc = "done"
  /\ balance' = IdleBalance
  /\ UNCHANGED ElseOfBalance

InitBalanceSpec == Init

NextBalance ==
  \/ /\ balance.pc = "idle"
     /\ \E hasJob \in BOOLEAN, engine \in Engines,
           sources \in SUBSET BalanceStores:
          \E scoreMap \in [sources -> Scores],
             influence \in [sources -> Influences]:
            \E order \in sortedSources(sources, scoreMap, influence):
              prepare(hasJob, engine, sources, scoreMap, influence, order)
  \/ \E region \in RegionPicks, allowed \in SUBSET BalanceStores,
        created \in BOOLEAN:
       Schedule(region, allowed, created)
  \/ ScheduleReturn

SpecBalance == InitBalanceSpec /\ [][NextBalance]_vars

-----------------------------------------------------------------------------
\* The coreStorage of storage.go: a default storage (etcd) and a region
\* storage (LevelDB), each with the regions saved in it, the storage in use
\* for the regions (useRegionStorage) and where the regions were loaded from
\* (regionLoaded).

StoredRegions == 1..MaxStoredRegion

\* the storage the region calls of the coreStorage go to
InUse(ps) == IF ps.useRegionStorage THEN "regionStorage" ELSE "Storage"

\* storage.TrySwitchRegionStorage
TrySwitchRegionStorage(useLocalRegionStorage) ==
  /\ coreStorage' =
       [coreStorage EXCEPT !.useRegionStorage = useLocalRegionStorage]
  /\ loadOp' = [op |-> "TrySwitchRegionStorage",
                ret |-> IF useLocalRegionStorage THEN "regionStorage"
                                                 ELSE "Storage",
                regions |-> {}]
  /\ UNCHANGED ElseOfStorage

\* storage.TryLoadRegionsOnce on a coreStorage; loaded says whether the
\* LoadRegions of the storage it reads succeeds, regions are those handed
\* to f
TryLoadRegionsOnce(loaded) ==
  /\ IF ~coreStorage.useRegionStorage
       THEN /\ coreStorage' =
                 [coreStorage EXCEPT
                    !.regionLoaded = IF loaded THEN "fromEtcd" ELSE @]
            /\ loadOp' = [op |-> "TryLoadRegionsOnce",
                          ret |-> IF loaded THEN "nil" ELSE "error",
                          regions |-> IF loaded THEN coreStorage.Storage
                                                ELSE {}]
     ELSE IF coreStorage.regionLoaded = "unloaded"
       THEN /\ coreStorage' =
                 [coreStorage EXCEPT
                    !.regionLoaded = IF loaded THEN "fromLeveldb" ELSE @]
            /\ loadOp' = [op |-> "TryLoadRegionsOnce",
                          ret |-> IF loaded THEN "nil" ELSE "error",
                          regions |-> IF loaded
                                        THEN coreStorage.regionStorage
                                        ELSE {}]
     ELSE /\ UNCHANGED coreStorage
          /\ loadOp' = [op |-> "TryLoadRegionsOnce", ret |-> "nil",
                        regions |-> {}]
  /\ UNCHANGED ElseOfStorage

\* coreStorage.SaveRegion: the region goes to the storage in use
SaveRegion(region, saved) ==
  /\ region \notin coreStorage[InUse(coreStorage)]
  /\ coreStorage' =
       IF saved
         THEN [coreStorage EXCEPT ![InUse(coreStorage)] = @ \cup {region}]
         ELSE coreStorage
  /\ loadOp' = [op |-> "SaveRegion",
                ret |-> IF saved THEN "nil" ELSE "error", regions |-> {}]
  /\ UNCHANGED ElseOfStorage

\* coreStorage.DeleteRegion: the region leaves the storage in use
DeleteRegion(region, deleted) ==
  /\ region \in coreStorage[InUse(coreStorage)]
  /\ coreStorage' =
       IF deleted
         THEN [coreStorage EXCEPT ![InUse(coreStorage)] = @ \ {region}]
         ELSE coreStorage
  /\ loadOp' = [op |-> "DeleteRegion",
                ret |-> IF deleted THEN "nil" ELSE "error", regions |-> {}]
  /\ UNCHANGED ElseOfStorage

\* storage.AreRegionsLoaded
AreRegionsLoaded(ps) ==
  IF ps.useRegionStorage
    THEN ps.regionLoaded = "fromLeveldb"
    ELSE ps.regionLoaded = "fromEtcd"

\* a caller asks AreRegionsLoaded
askLoaded ==
  /\ loadOp' = [op |-> "AreRegionsLoaded",
                ret |-> IF AreRegionsLoaded(coreStorage) THEN "true"
                                                         ELSE "false",
                regions |-> {}]
  /\ UNCHANGED coreStorage
  /\ UNCHANGED ElseOfStorage

InitStorageSpec == Init

NextStorage ==
  \/ \E useLocalRegionStorage \in BOOLEAN:
       TrySwitchRegionStorage(useLocalRegionStorage)
  \/ \E loaded \in BOOLEAN: TryLoadRegionsOnce(loaded)
  \/ \E region \in StoredRegions, saved \in BOOLEAN:
       SaveRegion(region, saved)
  \/ \E region \in StoredRegions, deleted \in BOOLEAN:
       DeleteRegion(region, deleted)
  \/ askLoaded

SpecStorage == InitStorageSpec /\ [][NextStorage]_vars

-----------------------------------------------------------------------------
(* Properties of the timestamp oracle *)

\* the step by which getTS at m returns a timestamp (line 387)
Issues(m) ==
  /\ getOp[m].pc = "check"
  /\ IsServing(m)
  /\ getOp'[m].pc = "idle"
  /\ leader' = m

\* (p1, l1) is before (p2, l2): the physical part first, then the logical
Before(p1, l1, p2, l2) == p1 < p2 \/ (p1 = p2 /\ l1 < l2)

\* C1: of two timestamps issued one after the other, by one leader or across
\* a transfer of the leadership or a restart, the later is strictly greater
\* as physical * 2^18 + logical (the saved window is never rolled back).
C1_Monotonic ==
  [][\A m \in Members:
       Issues(m) =>
         ComposeTS(getOp[m].p, getOp[m].l)
           > ComposeTS(lastIssued.physical, lastIssued.logical)]_vars

\* both members have issued timestamps, and one is about to issue again
C1_Witness ==
  /\ issuers = Members
  /\ \E m \in Members: getOp[m].pc = "check" /\ IsServing(m)

\* C2: within one lease every timestamp a successful Generate returns is
\* strictly greater, physical first and then logical, than every earlier
\* one, however Generate, Update and ResetUser interleave.
C2_IncreasingInLease ==
  [][\A m \in Members:
       Issues(m) /\ issuedInLease =>
         Before(lastIssued.physical, lastIssued.logical,
                getOp[m].p, getOp[m].l)]_vars

\* a second timestamp of a lease is about to be issued on a later physical
\* time than the first
C2_Witness ==
  /\ issuedInLease
  /\ \E m \in Members:
       /\ getOp[m].pc = "check"
       /\ IsServing(m)
       /\ getOp[m].p > lastIssued.physical

\* the step by which a call at m has written the saved window
Written(m) ==
  \/ syncOp[m].pc = "save" /\ syncOp'[m].pc = "set"
  \/ updOp[m].pc = "save" /\ updOp'[m].pc = "store"
  \/ /\ resetOp[m].pc = "save"
     /\ physical'[m] = resetOp[m].np
     /\ logical'[m] = resetOp[m].nl

C4_BelowWindow ==
  [][\A m \in Members:
       Issues(m) =>
         getOp[m].p * Millisecond + updateTimestampGuard <= storageTS]_vars

\* a timestamp is about to be issued exactly one guard below the window
C4_Witness ==
  \E m \in Members:
    /\ getOp[m].pc = "check"
    /\ IsServing(m)
    /\ physical[m] + updateTimestampGuard = storageTS
    /\ getOp[m].p = UnixMs(physical[m])

\* C6: a successful Generate(count) hands out count consecutive logical
\* values on one physical time, and the blocks of different calls share no
\* (physical, logical) pair: a block starts after the block before it ends.
C6_Blocks ==
  [][\A m \in Members:
       Issues(m) =>
         /\ getOp[m].count >= 1
         /\ getOp[m].l - getOp[m].count >= 0
         /\ Before(lastIssued.physical, lastIssued.logical,
                   getOp[m].p, getOp[m].l - getOp[m].count + 1)]_vars

\* a block of two is about to be issued on the physical time of the block
\* before it
C6_Witness ==
  \E m \in Members:
    /\ getOp[m].pc = "check"
    /\ IsServing(m)
    /\ getOp[m].count = 2
    /\ getOp[m].p = lastIssued.physical
    /\ issuedInLease

\* the step by which getTS at m returns without an error
GetOk(m) ==
  /\ getOp[m].pc # "idle"
  /\ getOp'[m].pc = "idle"
  /\ ret' = "ok"

\* C5: Generate never succeeds on an oracle that is not initialized or on a
\* member that is not serving, and a successful Generate never returns a
\* logical part of 2^18 or more.
C5_GenerateGuards ==
  [][\A m \in Members:
       /\ GetOk(m) =>
            /\ getOp[m].pc = "check"
            /\ IsServing(m)
            /\ getOp[m].p # 0
            /\ getOp[m].l < maxLogical
       /\ getOp[m].pc # "check" /\ getOp'[m].pc = "check" =>
            isInitialized(m)]_vars

\* a call that had to retry has generated a timestamp and lost the lease
\* before the return
C5_Witness ==
  \E m \in Members:
    /\ getOp[m].pc = "check"
    /\ ~IsServing(m)
    /\ getOp[m].i >= 1

\* the step by which updateTimestamp at m sets the time in memory (line 345)
UpdSets(m) ==
  /\ updOp[m].pc = "set"
  /\ updOp'[m].pc = "idle"
  /\ ret' = "ok"

\* C7 as stated: after Update the timestamp in memory, as
\* physical * 2^18 + logical, is at least what it was before.
C7_Original ==
  [][\A m \in Members:
       UpdSets(m) =>
         ComposeTS(UnixMs(physical'[m]), logical'[m])
           >= ComposeTS(UnixMs(physical[m]), logical[m])]_vars

\* C7: Update never moves the timestamp in memory back, physical first and
\* then logical, whatever the wall clock reads.
C7_NeverRegresses ==
  [][\A m \in Members:
       UpdSets(m) =>
         ~Before(UnixMs(physical'[m]), logical'[m],
                 UnixMs(physical[m]), logical[m])]_vars

\* Update is about to set a time that the memory has already passed
C7_Witness ==
  \E m \in Members:
    /\ updOp[m].pc = "set"
    /\ isInitialized(m)
    /\ updOp[m].next < physical[m]

\* the target tso is not strictly greater than the timestamp in memory
NotGreater(m, tso) ==
  ~Before(UnixMs(physical[m]), logical[m],
          UnixMs(ParseTS(tso).physical), ParseTS(tso).logical)

\* the errors of resetUserTimestamp
ResetErrors ==
  {"ErrNotLeader", "ErrNotInitialized", "ErrSmallerPhysical",
   "ErrSmallerLogical", "ErrTooLarge", "ErrSaveTimestamp"}

\* the call leaves the memory as it is and saves nothing
Untouched(m, out) ==
  /\ out.physical = physical[m]
  /\ out.logical = logical[m]
  /\ ~out.save

\* C8 as stated: a ResetUser whose target is not strictly greater changes
\* nothing and returns an error, or success when ignoreSmaller is set.
C8_Original ==
  \A m \in Members, tso \in ResetTargets, ig, skip \in BOOLEAN:
    ~mux[m] /\ resetOp[m].pc = "idle" /\ NotGreater(m, tso) =>
      LET out == resetUserLocked(m, tso, ig, skip)
      IN /\ Untouched(m, out)
         /\ IF ig THEN out.ret = "ok" ELSE out.ret \in ResetErrors

\* C8: a ResetUser whose target is not strictly greater changes nothing; on
\* a serving member with an initialized oracle it returns an error, or
\* success when ignoreSmaller is set; elsewhere it returns an error.
C8_SmallerRejected ==
  \A m \in Members, tso \in ResetTargets, ig, skip \in BOOLEAN:
    ~mux[m] /\ resetOp[m].pc = "idle" /\ NotGreater(m, tso) =>
      LET out == resetUserLocked(m, tso, ig, skip)
      IN /\ Untouched(m, out)
         /\ IF IsServing(m) /\ isInitialized(m)
            THEN IF ig THEN out.ret = "ok"
                 ELSE out.ret \in {"ErrSmallerPhysical", "ErrSmallerLogical"}
            ELSE out.ret \in {"ErrNotLeader", "ErrNotInitialized"}

\* a reset to the very timestamp in memory was refused
C8_Witness ==
  /\ ret = "ErrSmallerLogical"
  /\ \E m \in Members: IsServing(m) /\ logical[m] > 0

\* the distance in milliseconds of the target tso from the time in memory
Distance(m, tso) ==
  SubTSOPhysicalByWallClock(ParseTS(tso).physical, physical[m])

\* the call passes the checks: it goes on to save, or it sets the memory
Accepted(tso, out) ==
  \/ out.save
  \/ /\ out.ret = "ok"
     /\ out.physical = ParseTS(tso).physical
     /\ out.logical = ParseTS(tso).logical

\* C9 as stated: without skipUpperBoundCheck a forward jump of at most
\* maxResetGap is accepted and a larger one is refused with nothing
\* changed; with skipUpperBoundCheck every forward jump is accepted.
C9_Original ==
  \A m \in Members, tso \in ResetTargets, ig, skip \in BOOLEAN:
    ~mux[m] /\ resetOp[m].pc = "idle" /\ IsServing(m) /\ isInitialized(m)
      /\ ~NotGreater(m, tso) =>
      LET out == resetUserLocked(m, tso, ig, skip)
      IN IF skip \/ Distance(m, tso) <= MaxResetTSGapMs
         THEN Accepted(tso, out)
         ELSE out.ret = "ErrTooLarge" /\ Untouched(m, out)

\* C9: on a serving member with an initialized oracle, without
\* skipUpperBoundCheck a forward jump of less than maxResetGap is accepted
\* and one of maxResetGap or more is refused with nothing changed; with
\* skipUpperBoundCheck every forward jump is accepted.
C9_GapBound ==
  \A m \in Members, tso \in ResetTargets, ig, skip \in BOOLEAN:
    ~mux[m] /\ resetOp[m].pc = "idle" /\ IsServing(m) /\ isInitialized(m)
      /\ ~NotGreater(m, tso) =>
      LET out == resetUserLocked(m, tso, ig, skip)
      IN IF skip \/ Distance(m, tso) < MaxResetTSGapMs
         THEN Accepted(tso, out)
         ELSE out.ret = "ErrTooLarge" /\ Untouched(m, out)

\* a jump was refused as too large
C9_Witness ==
  /\ ret = "ErrTooLarge"
  /\ \E m \in Members: IsServing(m) /\ isInitialized(m)

-----------------------------------------------------------------------------
(* Properties of the proxy *)

\* the step by which stream s passes or fails the admission
Admits(s) == proxy[s].pc = "admit" /\ proxy'[s].pc # "admit"

\* C10: with a cap of N >= 0, never more than N proxied streams are served
\* at a time, and a stream that comes to the admission while N are served
\* returns ErrMaxCountTSOProxyRoutinesExceeded before it reads a request.
C10_Capped ==
  /\ [](maxStreamings >= 0 => Cardinality(Serving) <= maxStreamings)
  /\ [][\A s \in Streams:
          maxStreamings >= 0 /\ Admits(s)
            /\ Cardinality(Serving) = maxStreamings =>
            /\ proxy'[s].pc = "return"
            /\ proxy'[s].err = "ErrMaxCountTSOProxyRoutinesExceeded"
            /\ proxy'[s].recvs = 0]_vars

\* a stream was refused while as many streams as the cap allows are served
C10_Witness ==
  /\ maxStreamings >= 1
  /\ Cardinality(Serving) = maxStreamings
  /\ \E s \in Streams:
       /\ proxy[s].pc = "return"
       /\ proxy[s].err = "ErrMaxCountTSOProxyRoutinesExceeded"
       /\ proxy[s].recvs = 0

\* the streams that are served or were served and have not returned yet
Active ==
  {s \in Streams :
     \/ proxy[s].pc = "serve"
     \/ /\ proxy[s].pc = "return"
        /\ proxy[s].err # "ErrMaxCountTSOProxyRoutinesExceeded"}

\* the calls between their Add(1) and their deferred Add(-1)
Counted == {s \in Streams : proxy[s].pc \in {"serve", "return"}}

\* C11 as stated: with a cap of N >= 0 a stream that comes to the admission
\* while fewer than N streams are active is admitted.
C11_Original ==
  [][\A s \in Streams:
       maxStreamings >= 0 /\ Admits(s)
         /\ Cardinality(Active) < maxStreamings =>
         proxy'[s].pc = "serve"]_vars

\* C11: with a cap of N >= 0 every call that ends gives its slot back (the
\* counter is the number of calls between their Add(1) and their deferred
\* Add(-1), and the deferred step can always run), and a stream that comes
\* to the admission while fewer than N such calls are in progress, streams
\* being refused included, is admitted.
C11_SlotReturned ==
  /\ [](maxStreamings >= 0 =>
          /\ concurrentTSOProxyStreamings = Cardinality(Counted)
          /\ \A s \in Streams:
               proxy[s].pc = "return" => ENABLED forwardReturn(s))
  /\ [][\A s \in Streams:
          /\ maxStreamings >= 0 /\ Admits(s)
               /\ Cardinality(Counted) < maxStreamings =>
               proxy'[s].pc = "serve"
          /\ maxStreamings >= 0 /\ proxy[s].pc = "return"
               /\ proxy'[s].pc = "idle" =>
               concurrentTSOProxyStreamings'
                 = concurrentTSOProxyStreamings - 1]_vars

\* the cap is reached, a served stream has ended and is about to give its
\* slot back, and another stream waits at the admission
C11_Witness ==
  /\ maxStreamings >= 1
  /\ Cardinality(Counted) = maxStreamings
  /\ \E s, t \in Streams:
       /\ proxy[s].pc = "return"
       /\ proxy[s].err = "nil"
       /\ proxy[t].pc = "admit"

\* C12: a host never has two connections in the pool; a getDelegateClient call
\* that gets a connection by its Load or its LoadOrStore gets the one the pool
\* holds for its host at that moment, so the callers of one create race all
\* receive the connection the first LoadOrStore stored; and a connection that
\* was dialled and is not in the pool and not about to be offered to it is
\* closed
Returns(k) ==
  /\ delegate[k].pc \in {"idle", "store"}
  /\ delegate'[k].pc = "ret"
Offered == {delegate[k].conn : k \in {j \in Callers : delegate[j].pc = "store"}}
C12_OnePerHost ==
  /\ [](/\ \A h \in Hosts: Cardinality(Stored(h)) <= 1
        /\ \A c \in Conns:
             connState[c] = "open" =>
               \/ c \in Offered
               \/ \E h \in Hosts: c \in Stored(h))
  /\ [][\A k \in Callers:
          /\ Returns(k) =>
               /\ <<delegate'[k].host, delegate'[k].conn>> \in clientConns'
               /\ connState'[delegate'[k].conn] = "open"
          /\ (delegate[k].pc = "store" /\ delegate'[k].pc = "ret"
               /\ delegate'[k].conn # delegate[k].conn) =>
               connState'[delegate[k].conn] = "closed"]_vars
\* a caller lost the race: its connection is closed, another one is stored
C12_Witness ==
  \E k \in Callers:
    /\ delegate[k].pc = "idle"
    /\ delegate[k].conn # NoConn
    /\ \E c \in Conns:
         c # delegate[k].conn /\ connState[c] = "closed"
         /\ Stored(delegate[k].host) = {delegate[k].conn}
    /\ \E j \in Callers:
         j # k /\ delegate[j].pc = "idle" /\ delegate[j].host = delegate[k].host
         /\ delegate[j].conn = delegate[k].conn

\* C13: once a Send or a Recv of a wrapper has returned an error, a timeout
\* included, the closed flag is set, and a Send or Recv called after that
\* never reaches the underlying stream and returns an error
C13_ClosedAfterError ==
  /\ [](/\ errored => closed = 1
        /\ \A o \in Ops:
             wrapOp[o].late =>
               /\ wrapOp[o].pc # "stream"
               /\ wrapOp[o].pc = "idle" =>
                    wrapOp[o].ret = ClosedError(wrapped, o))
  /\ [][\A o \in Ops:
          wrapOp[o].pc = "stream" /\ wrapOp'[o].pc = "idle"
          /\ wrapOp'[o].ret # "nil" => closed' = 1]_vars
\* a call that timed out, and after it a call that was refused
C13_Witness ==
  \E o, q \in Ops:
    /\ o # q
    /\ wrapOp[o].pc = "idle"
    /\ wrapOp[o].ret = TimeoutError(wrapped, o)
    /\ wrapOp[q].pc = "idle"
    /\ wrapOp[q].late
    /\ wrapOp[q].ret = ClosedError(wrapped, q)

\* C14 as stated: a local request on a member that is not serving is rejected
\* with ErrNotLeader or ErrFollowerHandlingNotAllowed unless the endpoint
\* allows follower handling and the request opted in, and the leader's branch
\* of a handler never runs on a member that is not serving
Validated ==
  /\ unary.pc = "middleware"
  /\ unary.local
  /\ unary'.pc # "middleware"
OptedIn == unary.allow /\ unary.optIn
C14_Original ==
  [][/\ Validated /\ ~isServing /\ ~OptedIn =>
         unary'.ret \in {"ErrNotLeader", "ErrFollowerHandlingNotAllowed"}
     /\ unary'.ret = "leader body" => isServing]_vars
\* C14: a local request whose role is validated on a member that is not
\* serving is rejected, with ErrNotStarted when the server is closed and with
\* ErrNotLeader or ErrFollowerHandlingNotAllowed otherwise, unless the
\* endpoint allows follower handling and the request opted in; the leader's
\* branch of a handler runs only for a request validated while the member was
\* serving
C14_NonLeaderRejected ==
  /\ [][Validated /\ ~isServing /\ ~OptedIn =>
          /\ unary'.pc = "idle"
          /\ unary'.ret = IF isClosed THEN "ErrNotStarted"
                          ELSE IF unary.allow
                            THEN "ErrFollowerHandlingNotAllowed"
                          ELSE "ErrNotLeader"]_vars
  /\ [](/\ unary.pc = "body" /\ ~unary.followerHandle => unary.served
        /\ unary.ret = "leader body" => unary.served
        /\ unary.pc = "body" /\ ~unary.served => OptedIn)
\* a request refused on a member that is not serving although the endpoint
\* allows follower handling
C14_Witness ==
  /\ unary.pc = "idle"
  /\ unary.ret = "ErrFollowerHandlingNotAllowed"
  /\ unary.allow
  /\ ~unary.served

InvalidHeartbeat ==
  \/ heartbeat.req.peers = 0
  \/ heartbeat.req.id = 0
  \/ heartbeat.req.leader = NilPeer
Validated16 ==
  /\ heartbeat.out # "none"
  /\ heartbeat.req.local
  /\ heartbeat.req.bootstrapped
  /\ heartbeat.out \notin {"ErrNotStarted", "ErrNotLeader",
                            "ErrMismatchClusterID"}
C16_Original ==
  Validated16 /\ InvalidHeartbeat =>
    heartbeat.sent # "none" /\ ~heartbeat.handled
\* C16: a region heartbeat that has no peers, a zero region id or no leader
\* peer is never passed to HandleRegionHeartbeat; when the store of its leader
\* peer (store 0 when there is no leader peer) is known it gets an error
\* through the heartbeat response channel and the stream goes on, and when
\* that store is unknown the call returns "invalid store ID" and nothing is
\* sent through the channel
C16_InvalidRejected ==
  heartbeat.out # "none" /\ InvalidHeartbeat =>
    /\ ~heartbeat.handled
    /\ Validated16 =>
         IF GetStoreId(heartbeat.req.leader) \in stores
           THEN /\ heartbeat.out = "continue"
                /\ heartbeat.sent \in
                     {"invalid request leader", "invalid request region",
                      "invalid region, zero region peer count"}
           ELSE /\ heartbeat.out = "invalid store ID"
                /\ heartbeat.sent = "none"
\* a heartbeat without peers refused through the channel
C16_Witness ==
  /\ heartbeat.pc = "recv"
  /\ heartbeat.req.peers = 0
  /\ heartbeat.req.id # 0
  /\ heartbeat.sent = "invalid region, zero region peer count"

\* C17: a BatchScanRegions request that reaches the validation of its ranges
\* and has two ranges that overlap, the ranges half-open and an empty end key
\* standing for +infinity, gets "invalid key range, ranges overlapped" and no
\* region is scanned
BeforeEnd(key, end) == end = <<>> \/ bytesCompare(key, end) < 0
Overlap(r, q) ==
  \A a, b \in {r, q}: BeforeEnd(a.StartKey, b.EndKey)
Overlapped ==
  \E i, j \in 1..Len(scanRanges):
    i # j /\ Overlap(scanRanges[i], scanRanges[j])
RangesChecked ==
  scan.out \in {"invalid key range, ranges overlapped",
                "invalid key range, start key > end key",
                "scan error", "regions"}
C17_OverlapRejected ==
  RangesChecked /\ Overlapped =>
    /\ scan.out = "invalid key range, ranges overlapped"
    /\ ~scan.scanned

\* C18 as stated: the status of a job changes only from pending to running,
\* from running to finished and from running to cancelled
StatusOf(js, uid) ==
  LET i == CHOOSE i \in 1..Len(js) : js[i].uid = uid IN js[i].Status
Kept == {jobs[i].uid : i \in 1..Len(jobs)} \cap
        {jobs'[i].uid : i \in 1..Len(jobs')}
C18_Original ==
  [][\A uid \in Kept:
       \/ StatusOf(jobs', uid) = StatusOf(jobs, uid)
       \/ <<StatusOf(jobs, uid), StatusOf(jobs', uid)>> \in
            {<<"pending", "running">>, <<"running", "finished">>,
             <<"running", "cancelled">>}]_vars
\* C18: the status of a job changes only from pending to running, from
\* running to finished, and from pending or running to cancelled; a finished
\* or cancelled job keeps its status
C18_StatusEdges ==
  [][\A uid \in Kept:
       \/ StatusOf(jobs', uid) = StatusOf(jobs, uid)
       \/ <<StatusOf(jobs, uid), StatusOf(jobs', uid)>> \in
            {<<"pending", "running">>, <<"running", "finished">>,
             <<"running", "cancelled">>, <<"pending", "cancelled">>}]_vars
\* a finished job, a job cancelled while running or pending, and a job
\* running
C18_Witness ==
  \E i, j, k \in 1..Len(jobs):
    /\ jobs[i].Status = "finished"
    /\ jobs[j].Status = "cancelled"
    /\ jobs[k].Status = "running"

\* C19: no two jobs that are not complete have the same alias, and an addJob
\* with the alias of such a job returns "job already exists" and adds nothing
C19_AliasUnique ==
  /\ [](\A i, j \in 1..Len(jobs):
          i # j /\ ~isComplete(jobs[i]) /\ ~isComplete(jobs[j]) =>
            jobs[i].Alias # jobs[j].Alias)
  /\ [][\A alias \in Aliases:
          aliasExists(alias) /\ (\E saved \in BOOLEAN: addJob(alias, saved)) =>
            lastAdd' = "job already exists" /\ jobs' = jobs]_vars
\* an alias refused while its job runs, and used again after the job is
\* complete
C19_Witness ==
  /\ lastAdd = "job already exists"
  /\ \E i, j \in 1..Len(jobs):
       /\ i < j
       /\ jobs[i].Alias = jobs[j].Alias
       /\ isComplete(jobs[i])
       /\ ~isComplete(jobs[j])

\* C20: every job added gets a JobID greater than the JobID of every job
\* added before it, also after completed jobs were garbage-collected
C20_IdsIncrease ==
  \A i, j \in 1..Len(issued): i < j => issued[i] < issued[j]

\* the jobs of the list that carry this id
WithId(jobID) == {i \in 1..Len(jobs) : jobs[i].JobID = jobID}

\* a status from which a job never moves again
Completed(job) == job.Status \in {"finished", "cancelled"}

\* C21: deleteJob returns success only if the list holds a job of that id
\* that is not completed, and that job is then Cancelled while every other
\* job stays as it was; deleteJob on the id of a completed job returns an
\* error and leaves the jobs unchanged
C21_DeleteOpenOnly ==
  [][\A jobID \in 0..MaxAdds, saved \in BOOLEAN:
       deleteJob(jobID, saved) =>
         /\ lastDel' = "nil" =>
               \E i \in WithId(jobID):
                 /\ ~Completed(jobs[i])
                 /\ Len(jobs') = Len(jobs)
                 /\ jobs'[i].Status = "cancelled"
                 /\ \A j \in 1..Len(jobs): j # i => jobs'[j] = jobs[j]
         /\ (\E i \in WithId(jobID): Completed(jobs[i])) =>
               /\ lastDel' # "nil"
               /\ jobs' = jobs]_vars

\* a deleteJob on the id of a completed job has returned its error, and the
\* job is still in the list
C21_Witness ==
  /\ lastDel = "ErrInvalidArgument"
  /\ \E i \in 1..Len(jobs): jobs[i].Status = "finished"

\* C22: after a gc pass that has dropped jobs and persisted, the list holds
\* no job that is completed and whose Finish is more than reserveDuration
\* in the past
C22_NoExpiredLeft ==
  [][(\E saved \in BOOLEAN: schedGcPeek(saved)) /\ Len(jobs') < Len(jobs) =>
       \A i \in 1..Len(jobs'): ~(Completed(jobs'[i]) /\ jobs'[i].old)]_vars

\* Up, Offline and Tombstone in the order of a store's life
StateRank(state) ==
  CASE state = "Up" -> 0 [] state = "Offline" -> 1 [] state = "Tombstone" -> 2

\* C23 as stated: the state of a store never moves back along
\* Up -> Offline -> Tombstone, and a Tombstone store keeps its state
C23_Original ==
  [][\A id \in 1..MaxStores:
       storeStates[id] # "none" =>
         /\ storeStates'[id] # "none"
         /\ StateRank(storeStates[id]) <= StateRank(storeStates'[id])]_vars

\* C23: the state of a store moves forward along Up -> Offline -> Tombstone
\* or from Offline back to Up, and a Tombstone store never changes state
\* again
C23_TombstoneFinal ==
  [][\A id \in 1..MaxStores:
       storeStates[id] # "none" =>
         /\ storeStates'[id] # "none"
         /\ \/ StateRank(storeStates[id]) <= StateRank(storeStates'[id])
            \/ storeStates[id] = "Offline" /\ storeStates'[id] = "Up"]_vars

\* a PutStore on a Tombstone store was answered with the tombstone error,
\* next to an Offline store
C23_Witness ==
  /\ storeResp = [op |-> "PutStore", code |-> "STORE_TOMBSTONE"]
  /\ \E id \in 1..MaxStores: storeStates[id] = "Tombstone"
  /\ \E id \in 1..MaxStores: storeStates[id] = "Offline"

\* C24: no two regions stored in the tree have overlapping key ranges, the
\* ranges being half-open and an empty end key the end of the key space
C24_NoOverlap ==
  \A r, q \in tree: r # q => ~Overlap(r, q)

\* an update has dropped two stored regions for a region that spans them,
\* next to a region it left alone
C24_Witness ==
  /\ treeOp.op = "update"
  /\ treeOp.dropped >= 2
  /\ Cardinality(tree) >= 2

\* the later of two times
Later(a, b) == IF a >= b THEN a ELSE b

\* the step by which syncTimestamp at m returns nil without synchronizing
SyncSkipped(m) ==
  /\ syncLoad(m)
  /\ syncSkips(isInitialized(m), LoadTimestamp, getLastSavedTime(m))
  /\ ret' = "ok"

\* what a syncTimestamp that goes through all its steps does: next is the
\* later of now and last + guard for the loaded last, next + saveInterval
\* is persisted, and the return leaves (next, 0) in memory
SyncSteps(m) ==
  /\ syncLoad(m) /\ syncOp'[m].pc = "save" =>
       syncOp'[m].next =
         Later(syncOp'[m].now, storageTS + updateTimestampGuard)
  /\ syncSave(m) /\ syncOp'[m].pc = "set" =>
       storageTS' = syncOp[m].next + saveInterval
  /\ syncSet(m) =>
       /\ physical'[m] = syncOp[m].next
       /\ logical'[m] = 0

UpdateAdvances(m) ==
  /\ updRead(m)
  /\ updOp'[m].pc \in {"save", "set"}

\* C26 as stated: an updateTimestamp call that reads a wall clock earlier
\* than the last saved time minus the guard does not go on to advance the
\* physical time
C26_Original ==
  [][\A m \in {"pd1"}:
       UpdateAdvances(m) =>
         ~(updOp'[m].now < lastSavedTime[m] - updateTimestampGuard)]_vars

\* C26: an updateTimestamp call that reads a wall clock not more than the
\* guard later than the physical time in memory, while the logical part is
\* at most half of maxLogical, freezes: it returns with the physical and
\* the logical part as they were
C26_Freezes ==
  [][\A m \in {"pd1"}:
       /\ UpdateAdvances(m) =>
            \/ updOp'[m].now - physical[m] > updateTimestampGuard
            \/ logical[m] > maxLogical \div 2
       /\ updRead(m) /\ ~UpdateAdvances(m) =>
            UNCHANGED <<physical, logical, lastSavedTime, storageTS>>]_vars

\* an updateTimestamp call has returned at once, the wall clock being
\* behind the physical time it has reached and few timestamps given out
C26_Witness ==
  /\ ret = "ok"
  /\ updOp["pd1"].pc = "idle"
  /\ syncOp["pd1"].pc = "idle"
  /\ resetOp["pd1"].pc = "idle"
  /\ getOp["pd1"].pc = "idle"
  /\ physical["pd1"] >= MaxNow
  /\ logical["pd1"] \in 1..(maxLogical \div 2)

\* the step by which the updateTimestamp call of m ends
UpdateEnds(m) ==
  /\ updRead(m) \/ updSave(m) \/ updSet(m)
  /\ updOp'[m].pc = "idle"

\* C27 as stated: an updateTimestamp call that has found the logical part
\* at maxLogical or above ends with the physical time advanced and the
\* logical part 0
C27_Original ==
  [][\A m \in {"pd1"}:
       UpdateEnds(m) /\ updOp[m].full =>
         /\ physical'[m] > physical[m]
         /\ logical'[m] = 0]_vars

\* C27: an updateTimestamp call that finds the logical part at maxLogical
\* or above chooses a next physical time beyond the current one whatever the
\* wall clock reads; it ends with that time stored and the logical part 0,
\* unless saving the window fails, when it returns the error and leaves
\* both as they were, or unless another call has meanwhile reset the time
\* in memory or moved it to the millisecond of next or beyond
C27_AdvancesOrFails ==
  [][\A m \in {"pd1"}:
       /\ updRead(m) /\ logical[m] >= maxLogical =>
            /\ UpdateAdvances(m)
            /\ updOp'[m].next > physical[m]
       /\ UpdateEnds(m) /\ updOp[m].full =>
            \/ /\ physical'[m] = updOp[m].next
               /\ logical'[m] = 0
            \/ /\ updSave(m)
               /\ ret' = "ErrSaveTimestamp"
               /\ UNCHANGED <<physical, logical>>
            \/ /\ updSet(m)
               /\ UNCHANGED <<physical, logical>>
               /\ \/ physical[m] = ZeroTime
                  \/ UnixMs(physical[m]) >= UnixMs(updOp[m].next)]_vars

\* the logical part has passed maxLogical, a getTS waits for its next turn,
\* and the updateTimestamp call, the wall clock not being ahead, is about
\* to move the physical time on by a millisecond
C27_Witness ==
  /\ logical["pd1"] >= maxLogical
  /\ getOp["pd1"].pc = "loop"
  /\ getOp["pd1"].i >= 1
  /\ updOp["pd1"].pc = "set"
  /\ updOp["pd1"].full
  /\ updOp["pd1"].now <= physical["pd1"]
  /\ updOp["pd1"].next = physical["pd1"] + Millisecond

\* the step of m in which saving the window fails, in syncTimestamp,
\* updateTimestamp or resetUserTimestamp
SaveFails(m) ==
  \/ syncOp[m].pc = "save" /\ syncOp'[m].pc = "idle" /\ syncSave(m)
  \/ updOp[m].pc = "save" /\ updOp'[m].pc = "idle" /\ updSave(m)
  \/ resetOp[m].pc = "save" /\ storageTS' = storageTS /\ resetUserSave(m)

\* a step of m by which one of the three calls comes to its save
ComesToSave(m) ==
  \/ syncOp[m].pc = "idle" /\ syncOp'[m].pc = "save" /\ syncLoad(m)
  \/ updOp[m].pc = "idle" /\ updOp'[m].pc = "init" /\ updInit(m)
  \/ updOp[m].pc = "init" /\ updOp'[m].pc = "save" /\ updRead(m)
  \/ /\ resetOp[m].pc = "idle"
     /\ resetOp'[m].pc = "save"
     /\ resetUserTimestamp(m)

\* the time in memory and the last saved time of m are left as they are
MemoryKept(m) ==
  /\ physical'[m] = physical[m]
  /\ logical'[m] = logical[m]
  /\ lastSavedTime'[m] = lastSavedTime[m]

\* C28: a syncTimestamp, updateTimestamp or resetUserTimestamp call whose
\* save fails returns the error of the save, and neither the steps by which
\* it came to the save nor the failing save change the physical time, the
\* logical part or the last saved time in memory
C28_SaveFailureKeeps ==
  [][\A m \in {"pd1"}:
       /\ ComesToSave(m) => MemoryKept(m)
       /\ SaveFails(m) =>
            /\ MemoryKept(m)
            /\ ret' = "ErrSaveTimestamp"]_vars

\* the last call to return has failed to save its window, no call is under
\* way, and the time in memory is one that generateTSO had reached
C28_Witness ==
  /\ ret = "ErrSaveTimestamp"
  /\ resetOp["pd1"].pc = "idle"
  /\ updOp["pd1"].pc = "idle"
  /\ syncOp["pd1"].pc = "idle"
  /\ ~mux["pd1"]
  /\ isInitialized("pd1")
  /\ logical["pd1"] > 0
  /\ lastSavedTime["pd1"] = storageTS

\* the steps that read the cluster or do the endpoint's work
WorkSteps == {"GetRaftCluster", "scheduling", "handler"}

\* step a comes before the i-th step of the call
Earlier(a, i) == \E j \in 1..(i - 1): endpoint.trace[j] = a

\* C29: a unary call reads the cluster or does handler work only after the
\* rate limit, the forwarding decision and the validation of role and
\* cluster id; a call that is forwarded does neither
C29_FixedOrder ==
  \A i \in 1..Len(endpoint.trace):
    LET step == endpoint.trace[i]
    IN /\ step # "rateLimitCheck" => Earlier("rateLimitCheck", i)
       /\ step = "checkClusterID" => Earlier("validateRole", i)
       /\ step \in WorkSteps =>
            /\ Earlier("checkClusterID", i)
            /\ ~Earlier("forward", i)
       /\ step = "forward" => \A w \in WorkSteps: ~Earlier(w, i)

\* C30: when a call has returned because its forward stream to a host
\* failed with an error that asks for a new connection, the pool holds no
\* connection for that host
C30_StaleConnRemoved ==
  (fwd.pc = "idle" /\ fwd.failed # 0) => Stored(fwd.failed) = {}

\* the receive on the wrapper waits for the underlying stream
RecvWaits == wrapOp["Recv"].pc = "stream"

\* the receive on the wrapper has returned
RecvIdle == wrapOp["Recv"].pc = "idle"

\* C31 as stated: on each of the three wrappers a receive that waits for the
\* client returns in the end
C31_Original == RecvWaits ~> RecvIdle

\* C31: on tsoServer a receive that waits for the client returns in the
\* end, by the timer when nothing arrives, and a receive that returns the
\* timeout error has set the closed flag; on heartbeatServer and
\* bucketHeartbeatServer a receive has no timer and never returns a timeout
\* error
C31_TsoRecvReturns ==
  /\ (wrapped = "tsoServer" /\ RecvWaits) ~> RecvIdle
  /\ [][wrapTimeout("Recv") =>
          /\ wrapped = "tsoServer"
          /\ wrapOp'["Recv"].ret = "ErrTSOProxyRecvFromClientTimeout"
          /\ closed' = 1]_vars

\* a receive on tsoServer has returned the timeout error and the wrapper is
\* closed
C31_Witness ==
  /\ wrapped = "tsoServer"
  /\ RecvIdle
  /\ wrapOp["Recv"].ret = "ErrTSOProxyRecvFromClientTimeout"
  /\ closed = 1

\* the forwardToTSOService calls that have passed the admission and have not
\* yet run their deferred function
InProgress == {s \in Streams : proxy[s].pc \in {"serve", "return"}}

\* C32: the counter of concurrent proxy streamings is the number of
\* forwardToTSOService calls in progress, and so never negative, whatever
\* the cap is
C32_CounterExact ==
  /\ concurrentTSOProxyStreamings = Cardinality(InProgress)
  /\ concurrentTSOProxyStreamings >= 0

\* C33: the connection a getDelegateClient call returns is not closed when
\* the call returns
C33_ReturnsOpen ==
  [][\A k \in Callers:
       delegate[k].pc = "ret" /\ delegateReturn(k) =>
         connState[delegate[k].conn] # "closed"]_vars

\* IsScheduleAllowed comes to the job it peeked as running, the job is still
\* running and has run for longer than its Timeout
FinishDue(saved) ==
  /\ sched.pc = "peeked"
  /\ sched.status = "running"
  /\ jobs[sched.index].Status = "running"
  /\ finish(TRUE, saved)

\* the job IsScheduleAllowed peeked is Finished and the key-range manager
\* holds its Ranges no more
DueJobFinished ==
  /\ jobs'[sched.index].Status = "finished"
  /\ jobs[sched.index].uid \notin keyRanges'

C35_RegisteredWhileRunning ==
  /\ \A i \in 1..Len(jobs):
       jobs[i].uid \in keyRanges <=> jobs[i].Status = "running"
  /\ \A uid \in keyRanges: \E i \in 1..Len(jobs): jobs[i].uid = uid

\* C36: at most one job is Running, and every job before a Running job in
\* the list is completed
C36_OneRunning ==
  \A i \in 1..Len(jobs):
    jobs[i].Status = "running" =>
      /\ \A j \in 1..Len(jobs): j # i => jobs[j].Status # "running"
      /\ \A j \in 1..(i - 1): isComplete(jobs[j])
\* a job runs after a completed one and before a pending one
C36_Witness ==
  \E i, j, k \in 1..Len(jobs):
    /\ i < j
    /\ j < k
    /\ isComplete(jobs[i])
    /\ jobs[j].Status = "running"
    /\ jobs[k].Status = "pending"

\* addJob, deleteJob, gc, begin or finish comes to persistLocked and
\* conf.save fails
PersistFails ==
  \/ \E alias \in Aliases: ~aliasExists(alias) /\ addJob(alias, FALSE)
  \/ \E jobID \in 0..MaxAdds:
       /\ \E i \in WithId(jobID):
            (\A j \in WithId(jobID): i <= j) /\ ~isComplete(jobs[i])
       /\ deleteJob(jobID, FALSE)
  \/ sched.pc = "idle" /\ gcCount(1) > 0 /\ schedGcPeek(FALSE)
  \/ /\ sched.pc = "peeked"
     /\ sched.status = "pending"
     /\ jobs[sched.index].Status = "pending"
     /\ begin(FALSE)
  \/ FinishDue(FALSE)

\* C37: when persisting the job list fails in addJob, deleteJob, begin,
\* finish or gc, the job list in memory is afterwards what it was before
\* the operation: the same jobs in the same order with the same ids,
\* statuses, start times and finish times
C37_FailedPersistKeepsJobs ==
  [][PersistFails => jobs' = jobs]_vars
\* a deleteJob and an addJob have failed to persist while a job runs and
\* another is finished
C37_Witness ==
  /\ lastDel = "save error"
  /\ lastAdd = "save error"
  /\ \E i, j \in 1..Len(jobs):
       jobs[i].Status = "finished" /\ jobs[j].Status = "running"

\* Schedule has ended with an operator from a source to a target
Moved == balance.pc = "done" /\ balance.op # NoOp

\* the sum of the scores of the plan's stores, their number, and the
\* tolerate: the total times adjustRatio, at least 1
TotalScore == totalOf(balance.scoreMap, DOMAIN balance.scoreMap)
Candidates == Cardinality(DOMAIN balance.scoreMap)
Tolerate ==
  LET ratio == (TotalScore * adjustRatioPerMille) \div 1000
  IN IF ratio >= 1 THEN ratio ELSE 1

\* a thousand times max(1, totalScore * adjustRatio), the product not rounded
TolerateExact ==
  IF TotalScore * adjustRatioPerMille >= 1000
    THEN TotalScore * adjustRatioPerMille
    ELSE 1000

\* C38 as stated: an operator from a source to a target is only created if
\* sourceScore - sourceInfluence - tolerate >= targetScore + targetInfluence
\* + tolerate, with the influences of the two stores taken with their sign
\* and tolerate = max(1, totalScore * adjustRatio); both sides are taken a
\* thousand times
C38_Original ==
  Moved =>
    1000 * (balance.scoreMap[balance.op.source]
              - balance.influence[balance.op.source]) - TolerateExact >=
    1000 * (balance.scoreMap[balance.op.target]
              + balance.influence[balance.op.target]) + TolerateExact
\* C38: an operator from a source to a target is only created if
\* sourceScore - sourceInfluence - tolerate >= targetScore + targetInfluence
\* + tolerate, with the influences of the two stores taken with their sign
\* and tolerate = max(1, totalScore * adjustRatio rounded down to a whole
\* number)
C38_MovesOverTolerance ==
  Moved =>
    /\ balance.tolerate = Tolerate
    /\ balance.scoreMap[balance.op.source]
         - balance.influence[balance.op.source] - Tolerate >=
       balance.scoreMap[balance.op.target]
         + balance.influence[balance.op.target] + Tolerate
\* an operator created with a tolerate above 1 and a source whose influence
\* is negative
C38_Witness ==
  /\ Moved
  /\ Tolerate > 1
  /\ balance.influence[balance.op.source] < 0
  /\ balance.influence[balance.op.target] > 0

\* C39 as stated: the source of an operator has a score strictly above the
\* average score of the candidate stores
C39_Original ==
  Moved => balance.scoreMap[balance.op.source] * Candidates > TotalScore
\* C39: the source of an operator has a score at or above the average score
\* of the candidate stores, the average being the total score divided by the
\* number of candidate stores and rounded down
C39_SourceNotBelowAverage ==
  Moved =>
    balance.scoreMap[balance.op.source] >= TotalScore \div Candidates
\* an operator whose source has exactly the average score
C39_Witness ==
  /\ Moved
  /\ balance.scoreMap[balance.op.source] = TotalScore \div Candidates
  /\ balance.scoreMap[balance.op.source] * Candidates = TotalScore

\* C40: after TryLoadRegionsOnce has returned without error, AreRegionsLoaded
\* reports true for the region storage in use, also when the storage in use
\* was switched by TrySwitchRegionStorage before the call
C40_LoadedAfterLoad ==
  [][\A loaded \in BOOLEAN:
       TryLoadRegionsOnce(loaded) /\ loadOp'.ret = "nil" =>
         AreRegionsLoaded(coreStorage')]_vars

====
